---- MODULE Spec2Model ----
(***************************************************************************)
(* Local-Canvas: the editing engine of the whiteboard.                     *)
(*                                                                         *)
(*   useHistory  (src/src/hooks/useHistory.ts)   bounded undo/redo stack   *)
(*   useCanvas   (src/src/hooks/useCanvas.ts)    document operations       *)
(*   Canvas      (src/src/components/Canvas.tsx) pointer handlers          *)
(*   ShapeEditor (src/src/components/ExportMenu.tsx) resize/rotate overlay *)
(*   shapeUtils  (src/src/utils/shapeUtils.ts)   geometry                  *)
(*                                                                         *)
(* React semantics kept by the model: a handler reads the snapshot of the  *)
(* render it was created in (its closure), and every setHistory(updater)   *)
(* it issues is applied, in order, to the pending history.  Operators that *)
(* model a hook function therefore take the closure value (c or cl) and    *)
(* the pending history (h) separately; an action is one whole handler.     *)
(*                                                                         *)
(* JavaScript numbers are modelled as exact rationals <<n, d>>, d > 0, in  *)
(* lowest terms; floating-point rounding is not modelled.                  *)
(***************************************************************************)
EXTENDS Integers, Sequences, FiniteSets, TLC

(***************************************************************************)
(* Rational arithmetic                                                     *)
(***************************************************************************)
Abs(n) == IF n < 0 THEN -n ELSE n

RECURSIVE GCD(_, _)
GCD(a, b) == IF b = 0 THEN a ELSE GCD(b, a % b)

Norm(n, d) ==
  LET s == IF d < 0 THEN -1 ELSE 1
      g == GCD(Abs(n), Abs(d))
  IN  <<(s * n) \div g, (s * d) \div g>>

R(n) == <<n, 1>>
Q(n, d) == Norm(n, d)

RNeg(a) == <<-a[1], a[2]>>
RAdd(a, b) ==
  LET g == GCD(a[2], b[2])
  IN  Norm(a[1] * (b[2] \div g) + b[1] * (a[2] \div g), (a[2] \div g) * b[2])
RSub(a, b) == RAdd(a, RNeg(b))
RMul(a, b) == Norm(a[1] * b[1], a[2] * b[2])
RDiv(a, b) == Norm(a[1] * b[2], a[2] * b[1])
RLt(a, b) == RSub(a, b)[1] < 0
RLe(a, b) == RSub(a, b)[1] <= 0
RMax(a, b) == IF RLt(a, b) THEN b ELSE a
RMin(a, b) == IF RLt(b, a) THEN b ELSE a

(***************************************************************************)
(* JavaScript object helpers                                               *)
(***************************************************************************)
\* { ...r, ...s }
Merge(r, s) ==
  [k \in (DOMAIN r) \cup (DOMAIN s) |-> IF k \in DOMAIN s THEN s[k] ELSE r[k]]

\* r.k || dflt, for an optional field
Get(r, k, dflt) == IF k \in DOMAIN r THEN r[k] ELSE dflt

\* null for an id; T | null for objects is a sequence of length <= 1
Null == "null"
None == <<>>
Some(v) == <<v>>
IsSome(o) == Len(o) > 0
The(o) == o[1]

Last(s) == s[Len(s)]
Front(s) == SubSeq(s, 1, Len(s) - 1)

Point(x, y) == [x |-> x, y |-> y]

(***************************************************************************)
(* shapeUtils.ts                                                           *)
(***************************************************************************)
RECURSIVE RMinSeq(_)
RMinSeq(s) == IF Len(s) = 1 THEN s[1] ELSE RMin(s[1], RMinSeq(Tail(s)))

RECURSIVE RMaxSeq(_)
RMaxSeq(s) == IF Len(s) = 1 THEN s[1] ELSE RMax(s[1], RMaxSeq(Tail(s)))

Box(x, y, w, h) == [x |-> x, y |-> y, width |-> w, height |-> h]

getShapeBounds(shape) ==
  CASE shape.type = "pen" ->
         IF Len(shape.points) = 0
         THEN Box(shape.x, shape.y, R(0), R(0))
         ELSE LET xs == [i \in 1..Len(shape.points) |-> shape.points[i].x]
                  ys == [i \in 1..Len(shape.points) |-> shape.points[i].y]
                  minX == RMinSeq(xs)
                  maxX == RMaxSeq(xs)
                  minY == RMinSeq(ys)
                  maxY == RMaxSeq(ys)
              IN  Box(minX, minY, RSub(maxX, minX), RSub(maxY, minY))
    [] shape.type \in {"line", "arrow"} ->
         LET minX2 == RMin(shape.x, shape.endX)
             maxX2 == RMax(shape.x, shape.endX)
             minY2 == RMin(shape.y, shape.endY)
             maxY2 == RMax(shape.y, shape.endY)
         IN  Box(minX2, minY2, RSub(maxX2, minX2), RSub(maxY2, minY2))
    [] OTHER -> Box(shape.x, shape.y, shape.width, shape.height)

\* Math.cos and Math.sin, by their Taylor polynomials of degree 4 and 3
Cos(r) ==
  LET r2 == RMul(r, r)
  IN  RAdd(RSub(R(1), RDiv(r2, R(2))), RDiv(RMul(r2, r2), R(24)))

Sin(r) == RSub(r, RDiv(RMul(r, RMul(r, r)), R(6)))

padding == 5

isPointInShape(point, shape) ==
  LET bounds == getShapeBounds(shape)
      pad == R(padding)
      inBox(px, py) ==
        /\ RLe(RSub(bounds.x, pad), px)
        /\ RLe(px, RAdd(RAdd(bounds.x, bounds.width), pad))
        /\ RLe(RSub(bounds.y, pad), py)
        /\ RLe(py, RAdd(RAdd(bounds.y, bounds.height), pad))
  IN  IF Get(shape, "rotation", R(0)) # R(0)
      THEN LET two == R(2)
               centerX == IF shape.type \in {"line", "arrow", "pen"}
                          THEN RAdd(bounds.x, RDiv(bounds.width, two))
                          ELSE RAdd(shape.x, RDiv(shape.width, two))
               centerY == IF shape.type \in {"line", "arrow", "pen"}
                          THEN RAdd(bounds.y, RDiv(bounds.height, two))
                          ELSE RAdd(shape.y, RDiv(shape.height, two))
               cos == Cos(RNeg(shape.rotation))
               sin == Sin(RNeg(shape.rotation))
               dx == RSub(point.x, centerX)
               dy == RSub(point.y, centerY)
               rotatedX == RAdd(centerX, RSub(RMul(dx, cos), RMul(dy, sin)))
               rotatedY == RAdd(centerY, RAdd(RMul(dx, sin), RMul(dy, cos)))
           IN  inBox(rotatedX, rotatedY)
      ELSE inBox(point.x, point.y)

\* mutant: only x and y are shifted, whatever the type
moveShape_xyOnly(shape, deltaX, deltaY) ==
  Merge(shape, [x |-> RAdd(shape.x, deltaX), y |-> RAdd(shape.y, deltaY)])

moveShape(shape, deltaX, deltaY) ==
  CASE shape.type = "pen" ->
         Merge(shape, [x |-> RAdd(shape.x, deltaX),
                       y |-> RAdd(shape.y, deltaY),
                       points |-> [i \in 1..Len(shape.points) |->
                                     Point(RAdd(shape.points[i].x, deltaX),
                                           RAdd(shape.points[i].y, deltaY))]])
    [] shape.type \in {"line", "arrow"} ->
         Merge(shape, [x |-> RAdd(shape.x, deltaX),
                       y |-> RAdd(shape.y, deltaY),
                       endX |-> RAdd(shape.endX, deltaX),
                       endY |-> RAdd(shape.endY, deltaY)])
    [] shape.type \in {"rectangle", "circle", "text"} ->
         Merge(shape, [x |-> RAdd(shape.x, deltaX),
                       y |-> RAdd(shape.y, deltaY)])
    [] OTHER -> shape

resizeShape(shape, newBounds) ==
  LET oldBounds == getShapeBounds(shape)
      oldWidth == RMax(oldBounds.width, Q(1, 10))
      oldHeight == RMax(oldBounds.height, Q(1, 10))
      scaleX == RDiv(newBounds.width, oldWidth)
      scaleY == RDiv(newBounds.height, oldHeight)
      mapX(px) == RAdd(newBounds.x, RMul(RSub(px, oldBounds.x), scaleX))
      mapY(py) == RAdd(newBounds.y, RMul(RSub(py, oldBounds.y), scaleY))
  IN  CASE shape.type = "pen" ->
             Merge(shape, [x |-> newBounds.x, y |-> newBounds.y,
                           width |-> newBounds.width,
                           height |-> newBounds.height,
                           points |-> [i \in 1..Len(shape.points) |->
                                         Point(mapX(shape.points[i].x),
                                               mapY(shape.points[i].y))]])
        [] shape.type \in {"line", "arrow"} ->
             Merge(shape, [x |-> mapX(shape.x), y |-> mapY(shape.y),
                           endX |-> mapX(shape.endX),
                           endY |-> mapY(shape.endY),
                           width |-> newBounds.width,
                           height |-> newBounds.height])
        [] shape.type \in {"rectangle", "circle", "text"} ->
             Merge(shape, [x |-> newBounds.x, y |-> newBounds.y,
                           width |-> newBounds.width,
                           height |-> newBounds.height])
        [] OTHER -> shape

rotateShape(shape, rotation) == Merge(shape, [rotation |-> rotation])

\* index of the shape getShapeAtPoint returns, 0 for null
RECURSIVE hitIndex(_, _, _)
hitIndex(point, shapes, i) ==
  IF i = 0 THEN 0
  ELSE IF isPointInShape(point, shapes[i]) THEN i
       ELSE hitIndex(point, shapes, i - 1)

\* mutant: the hit shape with the greatest zIndex wins
getShapeAtPoint_byZIndex(point, shapes) ==
  LET hits == {i \in 1..Len(shapes) : isPointInShape(point, shapes[i])}
      z(i) == Get(shapes[i], "zIndex", 0)
  IN  IF hits = {} THEN None
      ELSE Some(shapes[CHOOSE i \in hits :
                         \A j \in hits : z(j) < z(i) \/ (z(j) = z(i) /\ j <= i)])

getShapeAtPoint(point, shapes) ==
  LET i == hitIndex(point, shapes, Len(shapes))
  IN  IF i = 0 THEN None ELSE Some(shapes[i])

(***************************************************************************)
(* useHistory.ts                                                           *)
(***************************************************************************)
MAX_HISTORY_SIZE == 50

History(past, present, future) ==
  [past |-> past, present |-> present, future |-> future]

canUndo(h) == Len(h.past) > 0
canRedo(h) == Len(h.future) > 0

\* mutant: pop() in place of shift(), the newest entry is dropped
pushToHistory_pop(h, newState) ==
  LET newPast == Append(h.past, h.present)
  IN  History(IF Len(newPast) > MAX_HISTORY_SIZE THEN Front(newPast) ELSE newPast,
              newState,
              <<>>)

\* mutant: future is carried over by a commit
pushToHistory_keepFuture(h, newState) ==
  LET newPast == Append(h.past, h.present)
  IN  History(IF Len(newPast) > MAX_HISTORY_SIZE THEN Tail(newPast) ELSE newPast,
              newState,
              h.future)

pushToHistory(h, newState) ==
  LET newPast == Append(h.past, h.present)
  IN  History(IF Len(newPast) > MAX_HISTORY_SIZE THEN Tail(newPast) ELSE newPast,
              newState,
              <<>>)

\* mutant: replacePresent records the old present like a commit
replacePresent_push(h, newState) ==
  History(Append(h.past, h.present), newState, <<>>)

replacePresent(h, newState) == [h EXCEPT !.present = newState]

\* undo: cl is the history of the render that created the callback; the
\* result holds the pending history and the value returned to the caller
\* mutant: the undone entry stays in past
undo_keepPast(cl, h) ==
  IF ~canUndo(cl)
  THEN [h |-> h, ret |-> cl.present]
  ELSE [h |-> History(h.past, Last(h.past), <<h.present>> \o h.future),
        ret |-> Last(cl.past)]

undo(cl, h) ==
  IF ~canUndo(cl)
  THEN [h |-> h, ret |-> cl.present]
  ELSE [h |-> History(Front(h.past), Last(h.past), <<h.present>> \o h.future),
        ret |-> Last(cl.past)]

\* mutant: redo leaves the entry it restores in future
redo_keepFuture(cl, h) ==
  IF ~canRedo(cl)
  THEN [h |-> h, ret |-> cl.present]
  ELSE [h |-> History(Append(h.past, h.present), Head(h.future), h.future),
        ret |-> Head(cl.future)]

redo(cl, h) ==
  IF ~canRedo(cl)
  THEN [h |-> h, ret |-> cl.present]
  ELSE [h |-> History(Append(h.past, h.present), Head(h.future), Tail(h.future)),
        ret |-> Head(cl.future)]

(***************************************************************************)
(* useCanvas.ts                                                            *)
(***************************************************************************)
Tools == {"select", "pen", "rectangle", "circle", "line", "arrow", "text"}

Viewport(ox, oy, z) == [offsetX |-> ox, offsetY |-> oy, zoom |-> z]

initialCanvasState ==
  [shapes |-> <<>>,
   selectedShapeId |-> Null,
   currentTool |-> "pen",
   strokeColor |-> "#ffffff",
   fillColor |-> "transparent",
   strokeWidth |-> 2,
   roughness |-> 0,
   fontSize |-> 16,
   fontFamily |-> "Arial, sans-serif",
   viewport |-> Viewport(R(0), R(0), R(1))]

\* the state the load effect installs for a persisted snapshot
mergedState(savedState) ==
  Merge(Merge(initialCanvasState, savedState),
        [viewport |-> Merge(initialCanvasState.viewport,
                            Get(savedState, "viewport", <<>>))])

\* mutant: the selected flags are left as they are
deselectAll_keepFlags(shapes) == shapes

deselectAll(shapes) ==
  [i \in 1..Len(shapes) |-> Merge(shapes[i], [selected |-> FALSE])]

\* mutant: the state is installed without a history entry
updateCanvasState_replace(h, newState) == replacePresent(h, newState)

updateCanvasState(h, newState) == pushToHistory(h, newState)

setCurrentTool(c, h, tool) ==
  replacePresent(h, Merge(c, [currentTool |-> tool,
                              selectedShapeId |-> Null,
                              shapes |-> deselectAll(c.shapes)]))

setStrokeColor(c, h, color) == replacePresent(h, Merge(c, [strokeColor |-> color]))
setFillColor(c, h, color) == replacePresent(h, Merge(c, [fillColor |-> color]))
setStrokeWidth(c, h, width) == replacePresent(h, Merge(c, [strokeWidth |-> width]))
setRoughness(c, h, roughness) == replacePresent(h, Merge(c, [roughness |-> roughness]))
setFontSize(c, h, fontSize) == replacePresent(h, Merge(c, [fontSize |-> fontSize]))

clearCanvas(c, h) ==
  pushToHistory(h, Merge(c, [shapes |-> <<>>, selectedShapeId |-> Null]))

\* mutant: the selection is not cleared
withoutSelected_keepSelection(c) ==
  Merge(c, [shapes |-> SelectSeq(c.shapes, LAMBDA sh : sh.id # c.selectedShapeId)])

withoutSelected(c) ==
  Merge(c, [shapes |-> SelectSeq(c.shapes, LAMBDA sh : sh.id # c.selectedShapeId),
            selectedShapeId |-> Null])

deleteSelectedShape(c, h) ==
  IF c.selectedShapeId # Null THEN pushToHistory(h, withoutSelected(c)) ELSE h

\* Array.prototype.find by id: the first match, or None
findShape(shapes, id) ==
  LET m == SelectSeq(shapes, LAMBDA sh : sh.id = id)
  IN  IF m = <<>> THEN None ELSE Some(Head(m))

\* the shape duplicateSelectedShape copies and the ShapeEditor overlay edits
findSelectedShape(c) ==
  IF c.selectedShapeId # Null THEN findShape(c.shapes, c.selectedShapeId) ELSE None

duplicateSelectedShape(c, h, newId) ==
  IF c.selectedShapeId # Null /\ IsSome(findShape(c.shapes, c.selectedShapeId))
  THEN LET selectedShape == The(findShape(c.shapes, c.selectedShapeId))
           duplicatedShape == Merge(selectedShape,
                                    [id |-> newId,
                                     x |-> RAdd(selectedShape.x, R(20)),
                                     y |-> RAdd(selectedShape.y, R(20)),
                                     selected |-> FALSE])
       IN  pushToHistory(h, Merge(c, [shapes |-> Append(deselectAll(c.shapes),
                                                        duplicatedShape),
                                      selectedShapeId |-> duplicatedShape.id]))
  ELSE h

\* mutant: the state undo returns is installed with a commit
undoAction_push(cl, h) ==
  LET u == undo(cl, h) IN pushToHistory(u.h, u.ret)

undoAction(cl, h) ==
  LET u == undo(cl, h) IN replacePresent(u.h, u.ret)

redoAction(cl, h) ==
  LET u == redo(cl, h) IN replacePresent(u.h, u.ret)

setViewport(c, h, viewport) ==
  replacePresent(h, Merge(c, [viewport |-> Merge(c.viewport, viewport)]))

panViewport(c, h, deltaX, deltaY) ==
  setViewport(c, h, [offsetX |-> RAdd(c.viewport.offsetX, deltaX),
                     offsetY |-> RAdd(c.viewport.offsetY, deltaY)])

MIN_ZOOM == Q(1, 10)
MAX_ZOOM == R(5)

\* mutant: the upper clamp is missing
clampZoom_noMax(z) == RMax(MIN_ZOOM, z)

clampZoom(z) == RMax(MIN_ZOOM, RMin(MAX_ZOOM, z))

\* mutant: the offsets are scaled by the inverse ratio
zoomViewport_inverse(c, h, zoomDelta, center) ==
  LET newZoom == clampZoom(RAdd(c.viewport.zoom, zoomDelta))
  IN  IF IsSome(center)
      THEN LET zoomRatio == RDiv(c.viewport.zoom, newZoom)
               newOffsetX == RSub(The(center).x,
                                  RMul(RSub(The(center).x, c.viewport.offsetX), zoomRatio))
               newOffsetY == RSub(The(center).y,
                                  RMul(RSub(The(center).y, c.viewport.offsetY), zoomRatio))
           IN  setViewport(c, h, [zoom |-> newZoom,
                                  offsetX |-> newOffsetX,
                                  offsetY |-> newOffsetY])
      ELSE setViewport(c, h, [zoom |-> newZoom])

\* center is None when centerX / centerY are undefined
zoomViewport(c, h, zoomDelta, center) ==
  LET newZoom == clampZoom(RAdd(c.viewport.zoom, zoomDelta))
  IN  IF IsSome(center)
      THEN LET zoomRatio == RDiv(newZoom, c.viewport.zoom)
               newOffsetX == RSub(The(center).x,
                                  RMul(RSub(The(center).x, c.viewport.offsetX), zoomRatio))
               newOffsetY == RSub(The(center).y,
                                  RMul(RSub(The(center).y, c.viewport.offsetY), zoomRatio))
           IN  setViewport(c, h, [zoom |-> newZoom,
                                  offsetX |-> newOffsetX,
                                  offsetY |-> newOffsetY])
      ELSE setViewport(c, h, [zoom |-> newZoom])

bringForward(c, h) ==
  IF c.selectedShapeId # Null
  THEN pushToHistory(h,
         Merge(c, [shapes |-> [i \in 1..Len(c.shapes) |->
                     IF c.shapes[i].id = c.selectedShapeId
                     THEN Merge(c.shapes[i],
                                [zIndex |-> Get(c.shapes[i], "zIndex", 0) + 1])
                     ELSE c.shapes[i]]]))
  ELSE h

\* mutant: the floor at 0 is missing
sendBackward_noFloor(c, h) ==
  IF c.selectedShapeId # Null
  THEN pushToHistory(h,
         Merge(c, [shapes |-> [i \in 1..Len(c.shapes) |->
                     IF c.shapes[i].id = c.selectedShapeId
                     THEN Merge(c.shapes[i],
                                [zIndex |-> Get(c.shapes[i], "zIndex", 0) - 1])
                     ELSE c.shapes[i]]]))
  ELSE h

sendBackward(c, h) ==
  IF c.selectedShapeId # Null
  THEN pushToHistory(h,
         Merge(c, [shapes |-> [i \in 1..Len(c.shapes) |->
                     IF c.shapes[i].id = c.selectedShapeId
                     THEN LET z == Get(c.shapes[i], "zIndex", 0) - 1
                          IN  Merge(c.shapes[i],
                                    [zIndex |-> IF z > 0 THEN z ELSE 0])
                     ELSE c.shapes[i]]]))
  ELSE h

(***************************************************************************)
(* exportUtils.ts: importFromJSON.  A file is its MIME type, whether the   *)
(* reader can read it, and what JSON.parse makes of its text (None when    *)
(* the text is not JSON).  The result is None when the promise rejects.    *)
(***************************************************************************)
\* mutant: a missing viewport is not filled in
importFromJSON_noBackfill(file) ==
  IF ~file.readable THEN None
  ELSE IF ~IsSome(file.content) THEN None
  ELSE Some(The(file.content))

\* mutant: text that does not parse yields an empty document
importFromJSON_lenient(file) ==
  IF ~file.readable THEN None
  ELSE IF ~IsSome(file.content) THEN Some(initialCanvasState)
  ELSE LET parsedState == The(file.content)
       IN  IF "viewport" \notin DOMAIN parsedState
           THEN Some(Merge(parsedState, [viewport |-> Viewport(R(0), R(0), R(1))]))
           ELSE Some(parsedState)

importFromJSON(file) ==
  IF ~file.readable THEN None
  ELSE IF ~IsSome(file.content) THEN None
  ELSE LET parsedState == The(file.content)
       IN  IF "viewport" \notin DOMAIN parsedState
           THEN Some(Merge(parsedState, [viewport |-> Viewport(R(0), R(0), R(1))]))
           ELSE Some(parsedState)

(***************************************************************************)
(* Canvas.tsx: coordinate transforms and shape creation                    *)
(***************************************************************************)
screenToCanvas(viewport, screenX, screenY) ==
  Point(RDiv(RSub(screenX, viewport.offsetX), viewport.zoom),
        RDiv(RSub(screenY, viewport.offsetY), viewport.zoom))

canvasToScreen(viewport, canvasX, canvasY) ==
  Point(RAdd(RMul(canvasX, viewport.zoom), viewport.offsetX),
        RAdd(RMul(canvasY, viewport.zoom), viewport.offsetY))

createShape(c, startPoint, tool, id) ==
  LET baseShape == [id |-> id, type |-> tool,
                    x |-> startPoint.x, y |-> startPoint.y,
                    width |-> R(0), height |-> R(0),
                    strokeColor |-> c.strokeColor,
                    fillColor |-> c.fillColor,
                    strokeWidth |-> c.strokeWidth,
                    roughness |-> c.roughness]
  IN  CASE tool = "pen" -> Merge(baseShape, [points |-> <<startPoint>>])
        [] tool \in {"line", "arrow"} ->
             Merge(baseShape, [endX |-> startPoint.x, endY |-> startPoint.y])
        [] tool = "text" ->
             Merge(baseShape, [text |-> <<>>, fontSize |-> c.fontSize,
                               fontFamily |-> c.fontFamily])
        [] OTHER -> baseShape

\* a string is the sequence of its characters; String.prototype.trim
RECURSIVE trimStart(_)
trimStart(text) ==
  IF text # <<>> /\ Head(text) = " " THEN trimStart(Tail(text)) ELSE text

RECURSIVE trimEnd(_)
trimEnd(text) ==
  IF text # <<>> /\ Last(text) = " " THEN trimEnd(Front(text)) ELSE text

\* mutant: the text is tested as typed
trim_none(text) == text

trim(text) == trimEnd(trimStart(text))

\* mutant: the zIndex of the topmost shape of the list
maxZIndex_last(shapes) == Get(Last(shapes), "zIndex", 0)

\* Math.max(...shapes.map(s => s.zIndex || 0)), for a non-empty list
RECURSIVE maxZIndex(_)
maxZIndex(shapes) ==
  LET z == Get(Head(shapes), "zIndex", 0)
  IN  IF Len(shapes) = 1 THEN z
      ELSE LET m == maxZIndex(Tail(shapes)) IN IF z > m THEN z ELSE m

\* the shape handleTextSubmit builds
textShape(c, anchor, text, newId) ==
  [id |-> newId, type |-> "text",
   x |-> anchor.x, y |-> anchor.y,
   width |-> RMul(R(Len(text) * c.fontSize), Q(6, 10)),
   height |-> R(c.fontSize),
   strokeColor |-> c.strokeColor,
   fillColor |-> c.fillColor,
   strokeWidth |-> c.strokeWidth,
   roughness |-> c.roughness,
   text |-> text,
   fontSize |-> c.fontSize,
   fontFamily |-> c.fontFamily,
   zIndex |-> IF Len(c.shapes) > 0 THEN maxZIndex(c.shapes) + 1 ELSE 0]

(***************************************************************************)
(* Bounds and inputs                                                       *)
(***************************************************************************)
MaxSteps == 2
MaxEditSteps == 3
MaxGestureSteps == 4
MaxGeomSteps == 1
MaxTouchSteps == 4
MaxSaveSteps == 3
MaxResizeSteps == 2
MaxHistorySteps == 3

Ids == {"a", "b", "c", "d"}
ToolInputs == {"select", "rectangle", "text"}
ScreenPoints == {Point(R(20), R(20)), Point(R(300), R(200))}
MovePoints == {Point(R(25), R(30)), Point(R(300), R(200))}
ZoomDeltas == {Q(3, 10), R(5), R(-5)}
ZoomCenters == {None, Some(Point(R(30), R(10)))}
ViewportInputs == {[zoom |-> R(2)], [offsetX |-> R(7), offsetY |-> R(-3)]}
HandleIds == {"nw", "n", "ne", "e", "se", "s", "sw", "w"}
RotatePx == {50, -50}
Texts == {<<"h", "i">>, <<" ", "o", "k", " ">>, <<" ", " ">>, <<>>}

(***************************************************************************)
(* State                                                                   *)
(***************************************************************************)
VARIABLES
  history,       \* useHistory: [past, present, future]
  initialState,  \* useCanvas: useState(initialCanvasState)
  storage,       \* localStorage entry: None, or Some(parsed snapshot)
  mounted,       \* the mount effects have run and their updates are rendered
  pending,       \* the snapshot the load effect read and queued for the next
                 \* render, when that render has not happened yet
  isDrawing, isDragging, isPanning,   \* Canvas flags
  dragStart, panStart,                \* Point | null
  currentShape,                       \* Shape | null
  textInput,                          \* [x, y, visible]
  lastTouchDistance,                  \* number | null
  touches,       \* the touch points on the canvas: what e.touches.length reads
  timer,         \* the pending auto-save timeout: the snapshot its callback holds
  editor,        \* ShapeEditor gesture in progress: its listener's closure
  chosenFile,    \* the file the last handler was given by the file input
  geom,          \* the shapeUtils call made last, with its arguments and result
  track,         \* the pointer gesture in progress or just released, when it
                 \* began with no button held and no other handler ran since
  lastOp,        \* the handler that ran last
  prevOp,        \* the handler that ran before it
  calls,         \* the useHistory functions that handler called, in order
  pre,           \* history before that handler
  pre2,          \* after an undo or a redo: history before the handler that
                 \* ran before it, when that was a commit (undo) or an undo (redo)
  alerted,       \* that handler called alert()
  steps          \* handler runs left in the explored window

canvasVars == <<isDrawing, isDragging, isPanning, dragStart, panStart,
                currentShape, textInput>>
touchVars == <<lastTouchDistance, touches>>
vars == <<history, initialState, storage, mounted, pending, isDrawing, isDragging,
          isPanning, dragStart, panStart, currentShape, textInput,
          lastTouchDistance, touches, timer, editor,
          chosenFile, geom, track, lastOp, prevOp, calls, pre, pre2, alerted, steps>>

canvasState == history.present

(***************************************************************************)
(* Initial states.  Besides the freshly constructed editor, the editor may *)
(* start from two states it reaches by its own operations: a document of   *)
(* two drawn shapes, and that document with one shape selected and a       *)
(* history one entry short of MAX_HISTORY_SIZE.                            *)
(***************************************************************************)
freshHistory == History(<<>>, initialCanvasState, <<>>)

withShape(c, shape) == Merge(c, [shapes |-> Append(c.shapes, shape)])

selectShape(c, id) ==
  Merge(c, [shapes |-> [i \in 1..Len(c.shapes) |->
                          Merge(c.shapes[i], [selected |-> c.shapes[i].id = id])],
            selectedShapeId |-> id])

\* rectangle tool: down at (10,10), moves to (110,60), up
\* line tool: down at (60,40), moves to (200,120), up; then the select tool
docHistory ==
  LET h1 == setCurrentTool(freshHistory.present, freshHistory, "rectangle")
      rectA == Merge(createShape(h1.present, Point(R(10), R(10)), "rectangle", "a"),
                     [width |-> R(100), height |-> R(50)])
      h2 == updateCanvasState(h1, withShape(h1.present, rectA))
      h3 == setCurrentTool(h2.present, h2, "line")
      lineB == Merge(createShape(h3.present, Point(R(60), R(40)), "line", "b"),
                     [endX |-> R(200), endY |-> R(120)])
      h4 == updateCanvasState(h3, withShape(h3.present, lineB))
  IN  setCurrentTool(h4.present, h4, "select")

\* select-tool click on shape a, then setStrokeWidth(k) and bringForward
\* until past is one entry short of its capacity
RECURSIVE fillHistory(_, _)
fillHistory(h, k) ==
  IF Len(h.past) >= MAX_HISTORY_SIZE - 1 THEN h
  ELSE LET h1 == setStrokeWidth(h.present, h, k)
       IN  fillHistory(bringForward(h1.present, h1), k + 1)

fullHistory ==
  fillHistory(updateCanvasState(docHistory, selectShape(docHistory.present, "a")), 1)

legacySnapshot ==
  [shapes |-> docHistory.present.shapes,
   selectedShapeId |-> Null,
   currentTool |-> "rectangle",
   strokeColor |-> "#00ff00",
   fillColor |-> "transparent",
   strokeWidth |-> 3,
   roughness |-> 1]

zoomedSnapshot ==
  Merge(docHistory.present, [viewport |-> Viewport(R(40), R(-20), R(2))])

\* saved while the text tool was the current tool
textSnapshot ==
  setCurrentTool(docHistory.present, docHistory, "text").present

StoredSnapshots ==
  {None, Some(legacySnapshot), Some(zoomedSnapshot), Some(textSnapshot)}

idleCanvas ==
  /\ isDrawing = FALSE
  /\ isDragging = FALSE
  /\ isPanning = FALSE
  /\ dragStart = None
  /\ panStart = None
  /\ currentShape = None
  /\ textInput = [x |-> R(0), y |-> R(0), visible |-> FALSE]
  /\ lastTouchDistance = None
  /\ touches = 0
  /\ editor = None

\* no handler has run yet; n handler runs are explored
Idle(n) ==
  /\ timer = IF mounted THEN Some(history.present) ELSE None
  /\ pending = None
  /\ chosenFile = None
  /\ geom = None
  /\ track = None
  /\ lastOp = "init"
  /\ prevOp = "init"
  /\ calls = <<>>
  /\ pre = history
  /\ pre2 = None
  /\ alerted = FALSE
  /\ steps = n

Init ==
  /\ idleCanvas
  /\ initialState = initialCanvasState
  /\ \/ /\ history = freshHistory
        /\ mounted = FALSE
        /\ storage \in StoredSnapshots
     \/ /\ history \in {docHistory, fullHistory}
        /\ mounted = TRUE
        /\ storage = None
  /\ Idle(MaxSteps)

\* generateId (Math.random().toString(36).substr(2, 9)): an id that no shape
\* of the session carries
idsOf(shapes) == {shapes[i].id : i \in 1..Len(shapes)}

usedIds ==
  UNION ({idsOf(history.present.shapes)}
         \cup {idsOf(history.past[i].shapes) : i \in 1..Len(history.past)}
         \cup {idsOf(history.future[i].shapes) : i \in 1..Len(history.future)}
         \cup {idsOf(currentShape)})

\* mutant: an id drawn without regard to the ids in use
generateId_any == Ids

generateId == Ids \ usedIds

(***************************************************************************)
(* Bookkeeping shared by the actions                                       *)
(***************************************************************************)
Ran(op, cs) ==
  /\ lastOp' = op
  /\ prevOp' = lastOp
  /\ calls' = cs
  /\ pre' = history

Called(f) == \E i \in 1..Len(calls) : calls[i] = f

Push == <<"pushToHistory">>
Replace == <<"replacePresent">>
PushIf(cond) == IF cond THEN Push ELSE <<>>

Ready == mounted /\ steps > 0

\* mutant: the effect leaves a pending timeout in place
AutoSaveEffect_noCleanup ==
  timer' = IF history'.present # history.present /\ ~IsSome(timer)
           THEN Some(history'.present)
           ELSE timer

\* useCanvas.ts 56-62: the auto-save effect of the render that follows a
\* handler.  It runs when canvasState has changed: its cleanup clears the
\* pending timeout and a new timeout is set whose callback holds the new
\* canvasState.  A render whose snapshot is a new object equal to the old
\* one restarts the timeout with the same content; that is seen only as a
\* later write of the same entry and is left out.
AutoSaveEffect ==
  timer' = IF history'.present # history.present
           THEN Some(history'.present)
           ELSE timer

\* a handler that only goes through the useCanvas API
HookOp(op, cs, h2) ==
  /\ Ready
  /\ steps' = steps - 1
  /\ history' = h2
  /\ AutoSaveEffect
  /\ Ran(op, cs)
  /\ pre2' = None
  /\ alerted' = FALSE
  /\ track' = None
  /\ chosenFile' = None
  /\ UNCHANGED <<geom, initialState, storage, mounted, pending, canvasVars, touchVars, editor>>

(***************************************************************************)
(* useCanvas effects and operations                                        *)
(***************************************************************************)
\* useCanvas.ts 36-53: the load effect, run once when the hook mounts
\* the first render is committed with a snapshot in storage: the load effect
\* reads it and queues setInitialState and replacePresent, and the auto-save
\* effect of that render sets its timeout on the default snapshot
MountEffects ==
  /\ ~mounted
  /\ pending = None
  /\ IsSome(storage)
  /\ pending' = Some(mergedState(The(storage)))
  /\ timer' = Some(history.present)
  /\ Ran("mountEffects", <<>>)
  /\ pre2' = None
  /\ alerted' = FALSE
  /\ track' = None
  /\ chosenFile' = None
  /\ UNCHANGED <<history, initialState, storage, mounted, geom, canvasVars,
                 touchVars, editor, steps>>

\* mutant: the render that installs the snapshot leaves the first timeout set
LoadEffect_noCleanup ==
  /\ ~mounted
  /\ IsSome(storage) => IsSome(pending)
  /\ mounted' = TRUE
  /\ IF IsSome(pending)
     THEN /\ initialState' = The(pending)
          /\ history' = replacePresent(history, The(pending))
     ELSE UNCHANGED <<initialState, history>>
  /\ pending' = None
  /\ Ran("loadEffect", IF IsSome(pending) THEN Replace ELSE <<>>)
  /\ pre2' = None
  /\ alerted' = FALSE
  /\ track' = None
  /\ chosenFile' = None
  /\ timer' = IF IsSome(timer) THEN timer ELSE Some(history'.present)
  /\ UNCHANGED <<geom, storage, canvasVars, touchVars, editor, steps>>

\* the render that follows the mount effects: the queued snapshot becomes the
\* present, the auto-save effect's cleanup clears the first timeout and the
\* effect sets a new one.  With nothing in storage the mount effects queue
\* nothing and the first timeout stays.
LoadEffect ==
  /\ ~mounted
  /\ IsSome(storage) => IsSome(pending)
  /\ mounted' = TRUE
  /\ IF IsSome(pending)
     THEN /\ initialState' = The(pending)
          /\ history' = replacePresent(history, The(pending))
     ELSE UNCHANGED <<initialState, history>>
  /\ pending' = None
  /\ Ran("loadEffect", IF IsSome(pending) THEN Replace ELSE <<>>)
  /\ pre2' = None
  /\ alerted' = FALSE
  /\ track' = None
  /\ chosenFile' = None
  /\ timer' = Some(history'.present)
  /\ UNCHANGED <<geom, storage, canvasVars, touchVars, editor, steps>>

SetCurrentTool == \E tool \in ToolInputs :
  HookOp("setCurrentTool", Replace, setCurrentTool(canvasState, history, tool))

SetStrokeColor == HookOp("setStrokeColor", Replace, setStrokeColor(canvasState, history, "#ff0000"))
SetFillColor == HookOp("setFillColor", Replace, setFillColor(canvasState, history, "#0000ff"))
SetStrokeWidth == HookOp("setStrokeWidth", Replace, setStrokeWidth(canvasState, history, 4))
SetRoughness == HookOp("setRoughness", Replace, setRoughness(canvasState, history, 1))
SetFontSize == HookOp("setFontSize", Replace, setFontSize(canvasState, history, 24))

ClearCanvas == HookOp("clearCanvas", Push, clearCanvas(canvasState, history))
DeleteSelectedShape ==
  HookOp("deleteSelectedShape", PushIf(canvasState.selectedShapeId # Null),
         deleteSelectedShape(canvasState, history))
DuplicateSelectedShape == \E newId \in generateId :
  HookOp("duplicateSelectedShape", PushIf(IsSome(findSelectedShape(canvasState))),
         duplicateSelectedShape(canvasState, history, newId))
BringForward ==
  HookOp("bringForward", PushIf(canvasState.selectedShapeId # Null),
         bringForward(canvasState, history))
SendBackward ==
  HookOp("sendBackward", PushIf(canvasState.selectedShapeId # Null),
         sendBackward(canvasState, history))

Undo ==
  /\ Ready
  /\ steps' = steps - 1
  /\ history' = undoAction(history, history)
  /\ Ran("undo", IF canUndo(history) THEN <<"undo", "replacePresent">> ELSE Replace)
  /\ pre2' = IF Called("pushToHistory") THEN Some(pre) ELSE None
  /\ alerted' = FALSE
  /\ track' = None
  /\ chosenFile' = None
  /\ AutoSaveEffect
  /\ UNCHANGED <<geom, initialState, storage, mounted, pending, canvasVars, touchVars, editor>>

Redo ==
  /\ Ready
  /\ steps' = steps - 1
  /\ history' = redoAction(history, history)
  /\ Ran("redo", IF canRedo(history) THEN <<"redo", "replacePresent">> ELSE Replace)
  /\ pre2' = IF lastOp = "undo" THEN Some(pre) ELSE None
  /\ alerted' = FALSE
  /\ track' = None
  /\ chosenFile' = None
  /\ AutoSaveEffect
  /\ UNCHANGED <<geom, initialState, storage, mounted, pending, canvasVars, touchVars, editor>>

SetViewport == \E viewport \in ViewportInputs :
  HookOp("setViewport", Replace, setViewport(canvasState, history, viewport))

PanViewport == HookOp("panViewport", Replace, panViewport(canvasState, history, R(15), R(-5)))

ZoomViewport == \E zoomDelta \in ZoomDeltas, center \in ZoomCenters :
  HookOp("zoomViewport", Replace, zoomViewport(canvasState, history, zoomDelta, center))

(***************************************************************************)
(* App.tsx                                                                 *)
(***************************************************************************)
HandleZoomIn == HookOp("handleZoomIn", Replace, zoomViewport(canvasState, history, Q(1, 10), None))
HandleZoomOut == HookOp("handleZoomOut", Replace, zoomViewport(canvasState, history, Q(-1, 10), None))
HandleZoomReset ==
  HookOp("handleZoomReset", Replace,
         zoomViewport(canvasState, history, RSub(R(1), canvasState.viewport.zoom), None))

\* handleKeyDown, Delete / Backspace
HandleKeyDelete ==
  HookOp("handleKeyDelete", PushIf(canvasState.selectedShapeId # Null),
         IF canvasState.selectedShapeId # Null
         THEN updateCanvasState(history, withoutSelected(canvasState))
         ELSE history)

\* a document exported by another session: its shape carries an id of that
\* session
importedDoc ==
  [shapes |-> <<Merge(createShape(initialCanvasState, Point(R(0), R(0)), "circle", "x"),
                      [width |-> R(30), height |-> R(30)])>>,
   selectedShapeId |-> Null,
   currentTool |-> "select",
   strokeColor |-> "#123456",
   fillColor |-> "transparent",
   strokeWidth |-> 1,
   roughness |-> 2,
   fontSize |-> 12,
   fontFamily |-> "serif"]

JsonFile(content) == [type |-> "application/json", readable |-> TRUE, content |-> content]

Files ==
  { JsonFile(Some(importedDoc)),
    JsonFile(Some(Merge(importedDoc, [viewport |-> Viewport(R(5), R(5), R(10))]))),
    JsonFile(Some(Merge(importedDoc, [viewport |-> Viewport(R(0), R(0), Q(1, 20))]))),
    JsonFile(None),
    [type |-> "application/json", readable |-> FALSE, content |-> None],
    [type |-> "text/plain", readable |-> TRUE, content |-> Some(importedDoc)],
    [type |-> "text/plain", readable |-> TRUE, content |-> None] }

\* handleFileChange.  The handler reads no editor state before the await and
\* its continuation commits with an updater, so the whole import is modelled
\* at the moment the continuation runs.
HandleFileChange == \E file \in Files :
  /\ Ready
  /\ steps' = steps - 1
  /\ IF file.type = "application/json"
     THEN LET importedState == importFromJSON(file)
          IN  IF IsSome(importedState)
              THEN /\ history' = updateCanvasState(history, The(importedState))
                   /\ alerted' = FALSE
                   /\ Ran("handleFileChange", Push)
              ELSE /\ history' = history
                   /\ alerted' = TRUE
                   /\ Ran("handleFileChange", <<>>)
     ELSE /\ history' = history
          /\ alerted' = FALSE
          /\ Ran("handleFileChange", <<>>)
  /\ pre2' = None
  /\ track' = None
  /\ chosenFile' = Some(file)
  /\ AutoSaveEffect
  /\ UNCHANGED <<geom, initialState, storage, mounted, pending, canvasVars, touchVars, editor>>

(***************************************************************************)
(* Canvas.tsx: mouse and wheel handlers                                    *)
(***************************************************************************)
\* a gesture as it stands at its pointer-down: the document point pressed
\* and the snapshot it was pressed on
Track(kind, down, c) ==
  [kind |-> kind, down |-> down, last |-> down, samples |-> 0,
   before |-> c, entries |-> Len(history.past), released |-> FALSE]

\* a text entry as it stands at the pointer-down that opens the input
TextTrack(down, c) ==
  Merge(Track("text", down, c), [history |-> history])

\* the entry closed: by which key or event, and with which value typed
closeEntry(by, text) ==
  IF IsSome(track) /\ The(track).kind = "text" /\ ~The(track).released
  THEN Some(Merge(The(track), [released |-> TRUE, closedBy |-> by, text |-> text]))
  ELSE None

\* a mouse gesture goes on under mouse events only
tracked(kinds) ==
  IsSome(track) /\ The(track).kind \in kinds /\ ~The(track).released

\* a pan entered on empty space: the previous and the last screen sample, and
\* the viewport the last sample found
PanTrack(down, c) ==
  Merge(Track("pan", down, c), [prev |-> down, from |-> c.viewport])

panSampled(screenPoint) ==
  Some([The(track) EXCEPT !.prev = The(track).last,
                          !.last = screenPoint,
                          !.from = canvasState.viewport,
                          !.samples = @ + 1])

CanvasOp(op, cs) ==
  /\ Ready
  /\ steps' = steps - 1
  /\ Ran(op, cs)
  /\ pre2' = None
  /\ alerted' = FALSE
  /\ chosenFile' = None
  /\ UNCHANGED <<geom, initialState, storage, mounted, pending, editor>>

\* what follows a mouse or text handler: no touch state is written, and the
\* next render runs the auto-save effect
MouseEffects ==
  /\ AutoSaveEffect
  /\ UNCHANGED touchVars

\* mode: "pan" is the middle button or ctrl+click, "plain" the primary button
HandleMouseDown == \E screenPoint \in ScreenPoints, mode \in {"pan", "plain"} :
  LET canvasPoint == screenToCanvas(canvasState.viewport, screenPoint.x, screenPoint.y)
      clickedShape == getShapeAtPoint(canvasPoint, canvasState.shapes)
  IN  /\ CanvasOp("handleMouseDown",
                  PushIf(mode = "plain" /\ canvasState.currentTool = "select"))
      /\ track' = IF mode = "pan" \/ isDrawing \/ isDragging \/ isPanning
                  THEN None
                  ELSE IF canvasState.currentTool = "select" /\ IsSome(clickedShape)
                  THEN Some(Track("drag", canvasPoint, canvasState))
                  ELSE IF canvasState.currentTool = "text"
                  THEN Some(TextTrack(canvasPoint, canvasState))
                  ELSE IF canvasState.currentTool # "select"
                  THEN Some(Track("draw", canvasPoint, canvasState))
                  ELSE Some(PanTrack(screenPoint, canvasState))
      /\ IF mode = "pan"
         THEN /\ isPanning' = TRUE
              /\ panStart' = Some(screenPoint)
              /\ UNCHANGED <<history, isDrawing, isDragging, dragStart,
                             currentShape, textInput>>
         ELSE IF canvasState.currentTool = "select"
         THEN IF IsSome(clickedShape)
              THEN /\ history' = updateCanvasState(history,
                                   selectShape(canvasState, The(clickedShape).id))
                   /\ isDragging' = TRUE
                   /\ dragStart' = Some(canvasPoint)
                   /\ UNCHANGED <<isDrawing, isPanning, panStart,
                                  currentShape, textInput>>
              ELSE /\ isPanning' = TRUE
                   /\ panStart' = Some(screenPoint)
                   /\ history' = updateCanvasState(history,
                                   Merge(canvasState,
                                         [shapes |-> deselectAll(canvasState.shapes),
                                          selectedShapeId |-> Null]))
                   /\ UNCHANGED <<isDrawing, isDragging, dragStart,
                                  currentShape, textInput>>
         ELSE IF canvasState.currentTool = "text"
         THEN /\ textInput' = [x |-> canvasPoint.x, y |-> canvasPoint.y, visible |-> TRUE]
              /\ UNCHANGED <<history, isDrawing, isDragging, isPanning,
                             dragStart, panStart, currentShape>>
         ELSE /\ \E id \in generateId :
                   currentShape' = Some(createShape(canvasState, canvasPoint,
                                                    canvasState.currentTool, id))
              /\ isDrawing' = TRUE
              /\ UNCHANGED <<history, isDragging, isPanning, dragStart,
                             panStart, textInput>>
      /\ MouseEffects

\* mutant: the size of a rectangle is taken from the origin, not from the
\* corner pressed
extendShape_fromOrigin(shape, canvasPoint) ==
  CASE shape.type = "pen" ->
         Merge(shape, [points |-> Append(shape.points, canvasPoint)])
    [] shape.type \in {"rectangle", "circle"} ->
         Merge(shape, [width |-> canvasPoint.x, height |-> canvasPoint.y])
    [] shape.type \in {"line", "arrow"} ->
         Merge(shape, [endX |-> canvasPoint.x, endY |-> canvasPoint.y])
    [] OTHER -> shape

extendShape(shape, canvasPoint) ==
  CASE shape.type = "pen" ->
         Merge(shape, [points |-> Append(shape.points, canvasPoint)])
    [] shape.type \in {"rectangle", "circle"} ->
         Merge(shape, [width |-> RSub(canvasPoint.x, shape.x),
                       height |-> RSub(canvasPoint.y, shape.y)])
    [] shape.type \in {"line", "arrow"} ->
         Merge(shape, [endX |-> canvasPoint.x, endY |-> canvasPoint.y])
    [] OTHER -> shape

\* the useHistory calls of handleMouseMove
mouseMoveCalls ==
  IF isPanning /\ IsSome(panStart) THEN Replace
  ELSE PushIf(isDragging /\ IsSome(dragStart) /\ canvasState.selectedShapeId # Null)

\* handleMouseMove(e), screenPoint being getMousePos(e)
handleMouseMove(screenPoint) ==
  LET canvasPoint == screenToCanvas(canvasState.viewport, screenPoint.x, screenPoint.y)
      panning == isPanning /\ IsSome(panStart)
      dragging == isDragging /\ IsSome(dragStart) /\ canvasState.selectedShapeId # Null
  IN  IF panning
      THEN /\ history' = panViewport(canvasState, history,
                                     RSub(screenPoint.x, The(panStart).x),
                                     RSub(screenPoint.y, The(panStart).y))
           /\ panStart' = Some(screenPoint)
           /\ UNCHANGED <<isDrawing, isDragging, isPanning, dragStart,
                          currentShape, textInput>>
      ELSE IF dragging
      THEN LET deltaX == RSub(canvasPoint.x, The(dragStart).x)
               deltaY == RSub(canvasPoint.y, The(dragStart).y)
           IN  /\ history' = updateCanvasState(history,
                     Merge(canvasState,
                           [shapes |-> [i \in 1..Len(canvasState.shapes) |->
                              IF canvasState.shapes[i].id = canvasState.selectedShapeId
                              THEN moveShape(canvasState.shapes[i], deltaX, deltaY)
                              ELSE canvasState.shapes[i]]]))
               /\ dragStart' = Some(canvasPoint)
               /\ UNCHANGED <<isDrawing, isDragging, isPanning, panStart,
                              currentShape, textInput>>
      ELSE IF isDrawing /\ IsSome(currentShape)
      THEN /\ currentShape' = Some(extendShape(The(currentShape), canvasPoint))
           /\ UNCHANGED <<history, isDrawing, isDragging, isPanning,
                          dragStart, panStart, textInput>>
      ELSE UNCHANGED <<history, canvasVars>>

HandleMouseMove == \E screenPoint \in MovePoints :
  /\ CanvasOp("handleMouseMove", mouseMoveCalls)
  /\ track' = IF tracked({"drag", "draw"})
              THEN Some([The(track) EXCEPT
                           !.last = screenToCanvas(canvasState.viewport,
                                                   screenPoint.x, screenPoint.y),
                           !.samples = @ + 1])
              ELSE IF tracked({"pan"}) THEN panSampled(screenPoint)
              ELSE None
  /\ handleMouseMove(screenPoint)
  /\ MouseEffects

\* handleMouseUp()
handleMouseUp ==
  /\ IF isDrawing /\ IsSome(currentShape)
     THEN /\ history' = updateCanvasState(history,
                          withShape(canvasState, The(currentShape)))
          /\ currentShape' = None
     ELSE UNCHANGED <<history, currentShape>>
  /\ isDrawing' = FALSE
  /\ isDragging' = FALSE
  /\ isPanning' = FALSE
  /\ dragStart' = None
  /\ panStart' = None
  /\ UNCHANGED textInput

\* also the canvas's onMouseLeave
HandleMouseUp ==
  /\ CanvasOp("handleMouseUp", PushIf(isDrawing /\ IsSome(currentShape)))
  /\ track' = IF tracked({"drag", "draw", "pan"})
              THEN Some([The(track) EXCEPT !.released = TRUE])
              ELSE None
  /\ handleMouseUp
  /\ MouseEffects

\* the text input's onBlur, and its onKeyDown for Enter.  The input exists
\* only in a render with textInput.visible.
HandleTextSubmit == \E text \in Texts, newId \in generateId :
  /\ textInput.visible
  /\ CanvasOp("handleTextSubmit", PushIf(trim(text) # <<>>))
  /\ track' = closeEntry("submit", text)
  /\ IF trim(text) # <<>>
     THEN history' = updateCanvasState(history,
                       withShape(canvasState,
                                 textShape(canvasState, textInput, text, newId)))
     ELSE UNCHANGED history
  /\ textInput' = [x |-> R(0), y |-> R(0), visible |-> FALSE]
  /\ UNCHANGED <<isDrawing, isDragging, isPanning, dragStart, panStart,
                 currentShape>>
  /\ MouseEffects

\* the text input's onKeyDown for Escape
HandleTextCancel ==
  /\ textInput.visible
  /\ CanvasOp("handleTextCancel", <<>>)
  /\ track' = closeEntry("escape", <<>>)
  /\ textInput' = [x |-> R(0), y |-> R(0), visible |-> FALSE]
  /\ UNCHANGED <<history, isDrawing, isDragging, isPanning, dragStart,
                 panStart, currentShape>>
  /\ MouseEffects

WheelEvents ==
  { [ctrlKey |-> TRUE, deltaX |-> R(0), deltaY |-> R(100)],
    [ctrlKey |-> TRUE, deltaX |-> R(0), deltaY |-> R(-100)],
    [ctrlKey |-> FALSE, deltaX |-> R(10), deltaY |-> R(30)] }

HandleWheel == \E e \in WheelEvents :
  LET screenPoint == Point(R(20), R(20))
  IN  /\ CanvasOp("handleWheel", Replace)
      /\ track' = None
      /\ history' =
           IF e.ctrlKey
           THEN zoomViewport(canvasState, history,
                             IF RLt(R(0), e.deltaY) THEN Q(-1, 10) ELSE Q(1, 10),
                             Some(screenPoint))
           ELSE panViewport(canvasState, history, RNeg(e.deltaX), RNeg(e.deltaY))
      /\ UNCHANGED canvasVars
      /\ MouseEffects

(***************************************************************************)
(* Canvas.tsx: touch handlers.  A touch event carries the touch points now *)
(* on the canvas, in client coordinates.                                   *)
(***************************************************************************)
RAbs(a) == IF RLt(a, R(0)) THEN RNeg(a) ELSE a

\* Math.sqrt, on the squares the touch inputs produce
MaxRoot == 400
Sqrt(a) ==
  Norm(CHOOSE r \in 0..MaxRoot : r * r = a[1],
       CHOOSE r \in 1..MaxRoot : r * r = a[2])

\* canvas.getBoundingClientRect(): the canvas lies below the toolbar
canvasRect == [left |-> R(0), top |-> R(64)]

getMousePos(e) == Point(RSub(e.x, canvasRect.left), RSub(e.y, canvasRect.top))

getTouchDistance(ts) ==
  IF Len(ts) < 2 THEN R(0)
  ELSE LET dx == RSub(ts[2].x, ts[1].x)
           dy == RSub(ts[2].y, ts[1].y)
       IN  Sqrt(RAdd(RMul(dx, dx), RMul(dy, dy)))

getTouchCenter(ts) ==
  IF Len(ts) = 1 THEN Point(ts[1].x, ts[1].y)
  ELSE Point(RDiv(RAdd(ts[1].x, ts[2].x), R(2)),
             RDiv(RAdd(ts[1].y, ts[2].y), R(2)))

TouchPairs ==
  { <<Point(R(100), R(164)), Point(R(160), R(244))>>,   \* 100 apart, centre (130,204)
    <<Point(R(70), R(124)), Point(R(190), R(284))>>,    \* 200 apart, centre (130,204)
    <<Point(R(110), R(170)), Point(R(170), R(250))>>,   \* 100 apart, centre (140,210)
    <<Point(R(80), R(130)), Point(R(200), R(290))>>,    \* 200 apart, centre (140,210)
    <<Point(R(101), R(164)), Point(R(161), R(244))>> }  \* 100 apart, centre (131,204)

TouchLists == {<<ts[1]>> : ts \in TouchPairs} \cup TouchPairs

TouchOp(op, cs) ==
  /\ Ready
  /\ steps' = steps - 1
  /\ Ran(op, cs)
  /\ pre2' = None
  /\ alerted' = FALSE
  /\ chosenFile' = None
  /\ UNCHANGED <<geom, initialState, storage, mounted, pending, editor>>

\* a touch gesture as it stands when its first touch point lands, no mouse
\* gesture being under way
PinchTrack(c) ==
  [kind |-> "pinch", before |-> c, entries |-> Len(history.past),
   samples |-> 0, sample |-> None, released |-> FALSE]

\* handleTouchStart.  With one touch point it calls handleMouseDown with an
\* object literal {clientX, clientY, button, ctrlKey}; the first statement
\* of handleMouseDown, e.preventDefault(), throws a TypeError on it, so the
\* handler ends before any state is written.
HandleTouchStart == \E ts \in TouchLists :
  /\ Len(ts) > touches
  /\ TouchOp("handleTouchStart", IF Len(ts) = 1 THEN <<"throw">> ELSE <<>>)
  /\ touches' = Len(ts)
  /\ track' = IF Len(ts) = 1 /\ tracked({"pan"})
              THEN track
              ELSE IF touches = 0
              THEN IF isDrawing \/ isDragging \/ isPanning \/ textInput.visible
                   THEN None
                   ELSE Some(PinchTrack(canvasState))
              ELSE IF tracked({"pinch"}) THEN track ELSE None
  /\ IF Len(ts) = 2
     THEN /\ lastTouchDistance' = Some(getTouchDistance(ts))
          /\ panStart' = Some(getTouchCenter(ts))
          /\ isPanning' = TRUE
          /\ UNCHANGED <<isDrawing, isDragging, dragStart, currentShape, textInput>>
     ELSE UNCHANGED <<canvasVars, lastTouchDistance>>
  /\ UNCHANGED history
  /\ AutoSaveEffect

\* lastTouchDistance && panStart
pinchArmed ==
  /\ IsSome(lastTouchDistance)
  /\ The(lastTouchDistance) # R(0)
  /\ IsSome(panStart)

\* the two-pointer branch of handleTouchMove: what it reads from the event
\* and from the state of its render
pinchSample(ts) ==
  LET distance == getTouchDistance(ts)
      center == getTouchCenter(ts)
      zoomDelta == IF pinchArmed
                   THEN RMul(RSub(distance, The(lastTouchDistance)), Q(1, 100))
                   ELSE R(0)
      deltaX == IF pinchArmed THEN RSub(center.x, The(panStart).x) ELSE R(0)
      deltaY == IF pinchArmed THEN RSub(center.y, The(panStart).y) ELSE R(0)
  IN  [distance |-> distance, center |-> center,
       zoomDelta |-> zoomDelta, deltaX |-> deltaX, deltaY |-> deltaY,
       zooms |-> pinchArmed /\ RLt(Q(1, 100), RAbs(zoomDelta)),
       pans |-> pinchArmed /\ (RLt(R(2), RAbs(deltaX)) \/ RLt(R(2), RAbs(deltaY))),
       lastTouchDistance |-> lastTouchDistance, panStart |-> panStart]

\* onZoom and then onPan, both of the render the handler belongs to
pinchViewport(c, h, s) ==
  LET h1 == IF s.zooms
            THEN zoomViewport(c, h, s.zoomDelta, Some(getMousePos(s.center)))
            ELSE h
  IN  IF s.pans THEN panViewport(c, h1, s.deltaX, s.deltaY) ELSE h1

HandleTouchMove == \E ts \in TouchLists :
  /\ touches > 0
  /\ Len(ts) = touches
  /\ IF Len(ts) = 1 /\ ~isPanning
     THEN /\ TouchOp("handleTouchMove", mouseMoveCalls)
          /\ track' = IF tracked({"pinch"}) THEN track
                      ELSE IF tracked({"pan"}) THEN panSampled(getMousePos(ts[1]))
                      ELSE None
          /\ handleMouseMove(getMousePos(ts[1]))
          /\ UNCHANGED lastTouchDistance
     ELSE IF Len(ts) = 2
     THEN LET s == pinchSample(ts)
          IN  /\ TouchOp("handleTouchMove",
                         (IF s.zooms THEN Replace ELSE <<>>)
                           \o (IF s.pans THEN Replace ELSE <<>>))
              /\ track' = IF tracked({"pinch"})
                          THEN Some([The(track) EXCEPT !.samples = @ + 1,
                                                       !.sample = Some(s)])
                          ELSE None
              /\ history' = pinchViewport(canvasState, history, s)
              /\ panStart' = IF s.pans THEN Some(s.center) ELSE panStart
              /\ lastTouchDistance' = Some(s.distance)
              /\ UNCHANGED <<isDrawing, isDragging, isPanning, dragStart,
                             currentShape, textInput>>
     ELSE /\ TouchOp("handleTouchMove", <<>>)
          /\ track' = IF tracked({"pinch"}) THEN track
                      ELSE IF tracked({"pan"}) /\ Len(ts) = 1
                      THEN panSampled(getMousePos(ts[1]))
                      ELSE None
          /\ UNCHANGED <<history, canvasVars, lastTouchDistance>>
  /\ UNCHANGED touches
  /\ AutoSaveEffect

\* handleTouchEnd, n touch points being left on the canvas
HandleTouchEnd == \E n \in 0..1 :
  /\ n < touches
  /\ TouchOp("handleTouchEnd", PushIf(n = 0 /\ isDrawing /\ IsSome(currentShape)))
  /\ touches' = n
  /\ track' = IF tracked({"pinch"})
              THEN IF n = 0 THEN Some([The(track) EXCEPT !.released = TRUE])
                   ELSE track
              ELSE None
  /\ IF n = 0
     THEN handleMouseUp
     ELSE /\ isPanning' = FALSE
          /\ panStart' = None
          /\ UNCHANGED <<history, isDrawing, isDragging, dragStart,
                         currentShape, textInput>>
  /\ lastTouchDistance' = None
  /\ AutoSaveEffect

(***************************************************************************)
(* ShapeEditor (ExportMenu.tsx 103-282) with Canvas.tsx 533-555.  A mouse  *)
(* down on a handle installs document listeners whose closure holds the    *)
(* props of that render: the shape, its bounds, the zoom, and the Canvas   *)
(* callback, which itself closes over that render's canvasState.           *)
(***************************************************************************)
HandleStart == Point(R(100), R(100))
ResizeMoves == {Point(R(130), R(120)), Point(R(-400), R(-400)), Point(R(600), R(600))}

EditorOp(op, cs) ==
  /\ Ready
  /\ steps' = steps - 1
  /\ Ran(op, cs)
  /\ pre2' = None
  /\ alerted' = FALSE
  /\ track' = None
  /\ chosenFile' = None
  /\ UNCHANGED <<geom, initialState, storage, mounted, pending, canvasVars, touchVars>>

Gesture(kind, handleId, e, shape, c) ==
  [kind |-> kind, handleId |-> handleId,
   startX |-> e.x, startY |-> e.y,
   startBounds |-> getShapeBounds(shape),
   shape |-> shape,
   zoom |-> c.viewport.zoom,
   c |-> c,
   sample |-> None]

\* ShapeEditor.handleMouseDown on a resize handle
EditorResizeDown == \E handleId \in HandleIds :
  /\ IsSome(findSelectedShape(canvasState))
  /\ ~IsSome(editor)
  /\ EditorOp("editorResizeDown", <<>>)
  /\ editor' = Some(Gesture("resize", handleId, HandleStart,
                            The(findSelectedShape(canvasState)), canvasState))
  /\ UNCHANGED <<history, timer>>

\* mutant: at the floor the moved edge is not put back
resizeBounds_noEdgeHold(handleId, startBounds, deltaX, deltaY) ==
  LET west == handleId \in {"nw", "sw", "w"}
      east == handleId \in {"ne", "e", "se"}
      north == handleId \in {"nw", "n", "ne"}
      south == handleId \in {"se", "s", "sw"}
      x1 == IF west THEN RAdd(startBounds.x, deltaX) ELSE startBounds.x
      y1 == IF north THEN RAdd(startBounds.y, deltaY) ELSE startBounds.y
      w1 == IF west THEN RSub(startBounds.width, deltaX)
            ELSE IF east THEN RAdd(startBounds.width, deltaX)
            ELSE startBounds.width
      h1 == IF north THEN RSub(startBounds.height, deltaY)
            ELSE IF south THEN RAdd(startBounds.height, deltaY)
            ELSE startBounds.height
  IN  Box(x1, y1,
          IF RLt(w1, R(10)) THEN R(10) ELSE w1,
          IF RLt(h1, R(10)) THEN R(10) ELSE h1)

\* the candidate box of a resize sample
resizeBounds(handleId, startBounds, deltaX, deltaY) ==
  LET west == handleId \in {"nw", "sw", "w"}
      east == handleId \in {"ne", "e", "se"}
      north == handleId \in {"nw", "n", "ne"}
      south == handleId \in {"se", "s", "sw"}
      x1 == IF west THEN RAdd(startBounds.x, deltaX) ELSE startBounds.x
      y1 == IF north THEN RAdd(startBounds.y, deltaY) ELSE startBounds.y
      w1 == IF west THEN RSub(startBounds.width, deltaX)
            ELSE IF east THEN RAdd(startBounds.width, deltaX)
            ELSE startBounds.width
      h1 == IF north THEN RSub(startBounds.height, deltaY)
            ELSE IF south THEN RAdd(startBounds.height, deltaY)
            ELSE startBounds.height
      narrow == RLt(w1, R(10))
      flat == RLt(h1, R(10))
  IN  Box(IF narrow /\ west
          THEN RSub(RAdd(startBounds.x, startBounds.width), R(10)) ELSE x1,
          IF flat /\ north
          THEN RSub(RAdd(startBounds.y, startBounds.height), R(10)) ELSE y1,
          IF narrow THEN R(10) ELSE w1,
          IF flat THEN R(10) ELSE h1)

\* Canvas.handleResizeShape, as closed over by the gesture
handleResizeShape(c, h, shape, newBounds) ==
  updateCanvasState(h,
    Merge(c, [shapes |-> [i \in 1..Len(c.shapes) |->
                            IF c.shapes[i].id = shape.id
                            THEN resizeShape(c.shapes[i], newBounds)
                            ELSE c.shapes[i]]]))

\* Canvas.handleRotateShape, as closed over by the gesture
handleRotateShape(c, h, shape, rotation) ==
  updateCanvasState(h,
    Merge(c, [shapes |-> [i \in 1..Len(c.shapes) |->
                            IF c.shapes[i].id = shape.id
                            THEN rotateShape(c.shapes[i], rotation)
                            ELSE c.shapes[i]]]))

\* the document mousemove listener of a resize gesture
EditorResizeMove == \E e \in ResizeMoves :
  /\ IsSome(editor)
  /\ The(editor).kind = "resize"
  /\ EditorOp("editorResizeMove", Push)
  /\ LET g == The(editor)
         deltaX == RDiv(RSub(e.x, g.startX), g.zoom)
         deltaY == RDiv(RSub(e.y, g.startY), g.zoom)
         newBounds == resizeBounds(g.handleId, g.startBounds, deltaX, deltaY)
     IN  /\ history' = handleResizeShape(g.c, history, g.shape, newBounds)
         /\ editor' = Some(Merge(g, [sample |-> Some([deltaX |-> deltaX,
                                                      deltaY |-> deltaY,
                                                      newBounds |-> newBounds])]))
  /\ AutoSaveEffect

\* mouse down on the rotation handle
EditorRotateDown ==
  /\ IsSome(findSelectedShape(canvasState))
  /\ ~IsSome(editor)
  /\ EditorOp("editorRotateDown", <<>>)
  /\ editor' = Some(Gesture("rotate", "rotate", HandleStart,
                            The(findSelectedShape(canvasState)), canvasState))
  /\ UNCHANGED <<history, timer>>

\* the document mousemove listener of a rotate gesture
EditorRotateMove == \E px \in RotatePx :
  /\ IsSome(editor)
  /\ The(editor).kind = "rotate"
  /\ EditorOp("editorRotateMove", Push)
  /\ LET g == The(editor)
         delta == RMul(R(px), Q(1, 100))
     IN  history' = handleRotateShape(g.c, history, g.shape,
                      RAdd(Get(g.shape, "rotation", R(0)), delta))
  /\ UNCHANGED editor
  /\ AutoSaveEffect

\* the document mouseup listener of either gesture
EditorMouseUp ==
  /\ IsSome(editor)
  /\ EditorOp("editorMouseUp", <<>>)
  /\ editor' = None
  /\ UNCHANGED <<history, timer>>

(***************************************************************************)
(* Specification                                                           *)
(***************************************************************************)
Next ==
  \/ MountEffects
  \/ LoadEffect
  \/ SetCurrentTool
  \/ SetStrokeColor
  \/ SetFillColor
  \/ SetStrokeWidth
  \/ SetRoughness
  \/ SetFontSize
  \/ ClearCanvas
  \/ DeleteSelectedShape
  \/ DuplicateSelectedShape
  \/ BringForward
  \/ SendBackward
  \/ Undo
  \/ Redo
  \/ SetViewport
  \/ PanViewport
  \/ ZoomViewport
  \/ HandleZoomIn
  \/ HandleZoomOut
  \/ HandleZoomReset
  \/ HandleKeyDelete
  \/ HandleFileChange
  \/ HandleMouseDown
  \/ HandleMouseMove
  \/ HandleMouseUp
  \/ HandleTextSubmit
  \/ HandleTextCancel
  \/ HandleWheel
  \/ EditorResizeDown
  \/ EditorResizeMove
  \/ EditorRotateDown
  \/ EditorRotateMove
  \/ EditorMouseUp

Spec == Init /\ [][Next]_vars

\* The operations that read or write the viewport; no other operation
\* changes it.
NextView ==
  \/ MountEffects
  \/ LoadEffect
  \/ Undo
  \/ Redo
  \/ SetViewport
  \/ PanViewport
  \/ ZoomViewport
  \/ HandleZoomIn
  \/ HandleZoomOut
  \/ HandleZoomReset
  \/ HandleFileChange
  \/ HandleMouseDown
  \/ HandleMouseMove
  \/ HandleMouseUp
  \/ HandleWheel

SpecView == Init /\ [][NextView]_vars

\* The editing operations on the document: pointer gestures, text entry,
\* tool switch, delete, duplicate, clear, layer commands, import, undo and
\* redo, explored over a longer window from a document with the select, the
\* rectangle or the text tool current.
toolHistory(tool) == setCurrentTool(docHistory.present, docHistory, tool)

zoomedHistory(h) ==
  setViewport(h.present, h, Viewport(R(40), R(-20), R(2)))

\* select-tool click on shape a, bringForward, then the text tool
raisedHistory ==
  LET h1 == updateCanvasState(docHistory, selectShape(docHistory.present, "a"))
      h2 == bringForward(h1.present, h1)
  IN  setCurrentTool(h2.present, h2, "text")

EditSeeds == {docHistory, toolHistory("rectangle"), raisedHistory}

InitEdit ==
  /\ idleCanvas
  /\ initialState = initialCanvasState
  /\ history \in EditSeeds
  /\ mounted = TRUE
  /\ storage = None
  /\ Idle(MaxEditSteps)

NextEdit ==
  \/ SetCurrentTool
  \/ ClearCanvas
  \/ DeleteSelectedShape
  \/ DuplicateSelectedShape
  \/ BringForward
  \/ SendBackward
  \/ Undo
  \/ Redo
  \/ HandleKeyDelete
  \/ HandleFileChange
  \/ HandleMouseDown
  \/ HandleMouseMove
  \/ HandleMouseUp
  \/ HandleTextSubmit
  \/ HandleTextCancel

SpecEdit == InitEdit /\ [][NextEdit]_vars

\* The pointer and text handlers of the canvas, with undo, from the same
\* documents at zoom 1 and at zoom 2.
InitGesture ==
  /\ idleCanvas
  /\ initialState = initialCanvasState
  /\ history \in EditSeeds \cup {zoomedHistory(h) : h \in EditSeeds}
  /\ mounted = TRUE
  /\ storage = None
  /\ Idle(MaxGestureSteps)

NextGesture ==
  \/ HandleMouseDown
  \/ HandleMouseMove
  \/ HandleMouseUp
  \/ HandleTextSubmit
  \/ HandleTextCancel
  \/ Undo

SpecGesture == InitGesture /\ [][NextGesture]_vars

\* The geometry functions and duplicateSelectedShape on one shape of every
\* type, as the canvas draws it: the shape alone in the document, selected.
RECURSIVE drawn(_, _)
drawn(shape, samples) ==
  IF samples = <<>> THEN shape
  ELSE drawn(extendShape(shape, Head(samples)), Tail(samples))

stroke(tool, start, samples) ==
  drawn(createShape(initialCanvasState, start, tool, "a"), samples)

DrawnShapes ==
  { stroke("rectangle", Point(R(10), R(10)), <<Point(R(110), R(60))>>),
    stroke("rectangle", Point(R(110), R(60)), <<Point(R(10), R(10))>>),
    stroke("rectangle", Point(R(10), R(10)), <<>>),
    stroke("circle", Point(R(0), R(0)), <<Point(R(30), R(30))>>),
    textShape(initialCanvasState, Point(R(40), R(40)), <<"h", "i">>, "a"),
    stroke("line", Point(R(60), R(40)), <<Point(R(200), R(120))>>),
    stroke("line", Point(R(10), R(20)), <<Point(R(90), R(20))>>),
    stroke("line", Point(R(5), R(5)), <<>>),
    stroke("arrow", Point(R(200), R(30)), <<Point(R(50), R(90))>>),
    stroke("pen", Point(R(5), R(5)), <<Point(R(15), R(25)), Point(R(30), R(10))>>),
    stroke("pen", Point(R(7), R(7)), <<>>) }

GeomShapes ==
  DrawnShapes \cup {rotateShape(shape, Q(1, 2)) : shape \in DrawnShapes}

\* the shape committed on a fresh canvas, then chosenFile with the select tool
selectedHistory(shape) ==
  LET h1 == updateCanvasState(freshHistory, withShape(freshHistory.present, shape))
      h2 == setCurrentTool(h1.present, h1, "select")
  IN  updateCanvasState(h2, selectShape(h2.present, shape.id))

GeomBoxes ==
  { Box(R(0), R(0), R(40), R(20)),
    Box(R(-30), R(15), Q(1, 2), R(75)),
    Box(R(12), R(-8), R(100), R(50)) }
GeomPoints ==
  { Point(R(20), R(20)), Point(R(4), R(8)), Point(R(130), R(80)), Point(R(300), R(200)),
    Point(R(80), R(50)) }
GeomDeltas == { Point(R(20), R(20)), Point(R(-7), Q(5, 2)), Point(R(0), R(-40)) }

InitGeom ==
  /\ idleCanvas
  /\ initialState = initialCanvasState
  /\ history \in {selectedHistory(shape) : shape \in GeomShapes}
                \cup {docHistory, fullHistory}
  /\ mounted = TRUE
  /\ storage = None
  /\ Idle(MaxGeomSteps)

GeomCall(call) ==
  /\ Ready
  /\ IsSome(findSelectedShape(canvasState))
  /\ steps' = steps - 1
  /\ geom' = Some(call)
  /\ UNCHANGED <<history, initialState, storage, mounted, pending, canvasVars, touchVars,
                 timer, editor, chosenFile, track, lastOp, prevOp, calls, pre,
                 pre2, alerted>>

\* getShapeBounds(resizeShape(shape, newBounds))
ResizeShapeCall == \E newBounds \in GeomBoxes :
  LET shape == The(findSelectedShape(canvasState))
  IN  GeomCall([fn |-> "resizeShape", shape |-> shape, newBounds |-> newBounds,
                bounds |-> getShapeBounds(resizeShape(shape, newBounds))])

\* isPointInShape(point, shape) and isPointInShape(point + delta, moveShape(shape, delta))
HitTestCall == \E point \in GeomPoints, delta \in GeomDeltas :
  LET shape == The(findSelectedShape(canvasState))
  IN  GeomCall([fn |-> "isPointInShape", shape |-> shape, point |-> point,
                delta |-> delta,
                hit |-> isPointInShape(point, shape),
                hitMoved |-> isPointInShape(
                               Point(RAdd(point.x, delta.x), RAdd(point.y, delta.y)),
                               moveShape(shape, delta.x, delta.y))])

\* getShapeAtPoint(point, canvasState.shapes)
GetShapeAtPointCall == \E point \in GeomPoints :
  /\ Ready
  /\ steps' = steps - 1
  /\ geom' = Some([fn |-> "getShapeAtPoint", point |-> point,
                    shapes |-> canvasState.shapes,
                    result |-> getShapeAtPoint(point, canvasState.shapes)])
  /\ UNCHANGED <<history, initialState, storage, mounted, pending, canvasVars, touchVars,
                 timer, editor, chosenFile, track, lastOp, prevOp, calls, pre,
                 pre2, alerted>>

NextGeom ==
  \/ DuplicateSelectedShape
  \/ ResizeShapeCall
  \/ HitTestCall
  \/ GetShapeAtPointCall

SpecGeom == InitGeom /\ [][NextGeom]_vars

(***************************************************************************)
(* The touch handlers with the mouse handlers, from the same documents.    *)
(***************************************************************************)
InitTouch ==
  /\ idleCanvas
  /\ initialState = initialCanvasState
  /\ history \in EditSeeds
  /\ mounted = TRUE
  /\ storage = None
  /\ Idle(MaxTouchSteps)

NextTouch ==
  \/ HandleTouchStart
  \/ HandleTouchMove
  \/ HandleTouchEnd
  \/ HandleMouseDown
  \/ HandleMouseUp

SpecTouch == InitTouch /\ [][NextTouch]_vars

(***************************************************************************)
(* Auto-save.  The timeout set by the auto-save effect fires when no       *)
(* render has cleared it: saveCanvasState writes JSON.stringify of the     *)
(* snapshot its callback holds, and loadCanvasState parses it back.  A     *)
(* snapshot holds numbers, strings, booleans, null, arrays and objects     *)
(* without undefined members, which the two conversions give back as they  *)
(* were, so the entry is kept as the snapshot.                             *)
(***************************************************************************)
\* the timeout fires.  It was set for 1000 ms and the render queued by the
\* mount effects is immediate, so no timeout fires before that render.
AutoSave ==
  /\ mounted
  /\ IsSome(timer)
  /\ storage' = Some(The(timer))
  /\ timer' = None
  /\ Ran("autoSave", <<>>)
  /\ UNCHANGED <<history, initialState, mounted, pending, canvasVars, touchVars, editor,
                 chosenFile, geom, track, pre2, alerted, steps>>

InitSave ==
  /\ idleCanvas
  /\ initialState = initialCanvasState
  /\ \/ /\ history = freshHistory
        /\ mounted = FALSE
        /\ storage \in {None, Some(zoomedSnapshot)}
     \/ /\ history = toolHistory("rectangle")
        /\ mounted = TRUE
        /\ storage = None
  /\ Idle(MaxSaveSteps)

NextSave ==
  \/ MountEffects
  \/ LoadEffect
  \/ SetStrokeColor
  \/ ClearCanvas
  \/ Undo
  \/ HandleMouseDown
  \/ HandleMouseMove
  \/ HandleMouseUp
  \/ AutoSave

\* the mount effect runs and a timeout that stays set fires
SpecSave ==
  /\ InitSave
  /\ [][NextSave]_vars
  /\ WF_vars(MountEffects)
  /\ WF_vars(LoadEffect)
  /\ WF_vars(AutoSave)

(***************************************************************************)
(* The resize and rotate handles of the ShapeEditor, on one selected shape *)
(* of each kind.  A shape is selected by a select-tool click at its start  *)
(* point, so only shapes that such a click hits are taken.                 *)
(***************************************************************************)
InitResize ==
  /\ idleCanvas
  /\ initialState = initialCanvasState
  /\ history \in {selectedHistory(shape) :
                    shape \in {sh \in DrawnShapes :
                                 isPointInShape(Point(sh.x, sh.y), sh)}}
  /\ mounted = TRUE
  /\ storage = None
  /\ Idle(MaxResizeSteps)

NextResize ==
  \/ EditorResizeDown
  \/ EditorResizeMove
  \/ EditorRotateDown
  \/ EditorRotateMove
  \/ EditorMouseUp

SpecResize == InitResize /\ [][NextResize]_vars

(***************************************************************************)
(* Commits, undo and redo around the capacity of past: from the document   *)
(* of two shapes and from the history one entry short of MAX_HISTORY_SIZE. *)
(***************************************************************************)
InitHistory ==
  /\ idleCanvas
  /\ initialState = initialCanvasState
  /\ history \in {docHistory, fullHistory}
  /\ mounted = TRUE
  /\ storage = None
  /\ Idle(MaxHistorySteps)

NextHistory ==
  \/ SetCurrentTool
  \/ BringForward
  \/ DeleteSelectedShape
  \/ ClearCanvas
  \/ Undo
  \/ Redo

SpecHistory == InitHistory /\ [][NextHistory]_vars

(***************************************************************************)
(* Properties                                                              *)
(***************************************************************************)
zoomOf(c) == c.viewport.zoom

InRange(z) == RLe(MIN_ZOOM, z) /\ RLe(z, MAX_ZOOM)

\* C1: past never holds more than MAX_HISTORY_SIZE snapshots, and a commit
\* made while past holds MAX_HISTORY_SIZE drops exactly the oldest entry,
\* keeps the others in order and appends the old present last.
C1_PastBoundedFifo ==
  /\ Len(history.past) <= MAX_HISTORY_SIZE
  /\ (Called("pushToHistory") /\ Len(pre.past) = MAX_HISTORY_SIZE)
       => history.past = Append(Tail(pre.past), pre.present)

C1_Witness ==
  /\ Called("pushToHistory")
  /\ Len(pre.past) = MAX_HISTORY_SIZE
  /\ Len(history.past) = MAX_HISTORY_SIZE
  /\ pre.past[1] # pre.past[2]
  /\ history.past[1] = pre.past[2]
  /\ history.past[MAX_HISTORY_SIZE] = pre.present

\* C2: an undo with a non-empty past followed immediately by a redo leaves
\* past, present and future as they were before the undo.
C2_UndoRedoRoundTrip ==
  (lastOp = "redo" /\ IsSome(pre2) /\ canUndo(The(pre2)))
    => /\ history.present = The(pre2).present
       /\ history.past = The(pre2).past
       /\ history.future = The(pre2).future

C2_Witness ==
  /\ lastOp = "redo"
  /\ IsSome(pre2)
  /\ canUndo(The(pre2))
  /\ pre.present # The(pre2).present
  /\ history = The(pre2)

\* C3: every commit leaves future empty, so canRedo is false after it.
C3_CommitClearsFuture ==
  Called("pushToHistory") => (history.future = <<>> /\ ~canRedo(history))

C3_Witness ==
  /\ Called("pushToHistory")
  /\ Len(pre.future) > 0
  /\ history.future = <<>>

\* C4: the replace-class operations change only present: past and future,
\* and with them canUndo and canRedo, are the same after the call as before.
ReplaceOps ==
  {"setCurrentTool", "setStrokeColor", "setFillColor", "setStrokeWidth",
   "setRoughness", "setFontSize", "setViewport", "panViewport", "zoomViewport"}

C4_ReplaceKeepsStacks ==
  lastOp \in ReplaceOps
    => /\ history.past = pre.past
       /\ history.future = pre.future
       /\ canUndo(history) = canUndo(pre)
       /\ canRedo(history) = canRedo(pre)

C4_Witness ==
  /\ lastOp \in ReplaceOps
  /\ history.present # pre.present
  /\ Len(pre.past) > 0
  /\ Len(pre.future) > 0
  /\ history.past = pre.past
  /\ history.future = pre.future

\* C5: an undo with an empty past and a redo with an empty future change
\* nothing and report no error.
C5_ExhaustedIsNoOp ==
  ((lastOp = "undo" /\ ~canUndo(pre)) \/ (lastOp = "redo" /\ ~canRedo(pre)))
    => (history = pre /\ ~alerted)

\* a redo on an empty future right after an undo on an empty past
C5_Witness ==
  /\ lastOp = "redo"
  /\ ~canRedo(pre)
  /\ IsSome(pre2)
  /\ ~canUndo(The(pre2))
  /\ history = The(pre2)

\* C6: a move sample of a shape drag, and a sample of a resize or rotate
\* gesture, adds no history entry: past keeps its length and future is kept.
DragSample ==
  /\ lastOp = "handleMouseMove"
  /\ ~isPanning
  /\ isDragging
  /\ IsSome(dragStart)
  /\ pre.present.selectedShapeId # Null

C6_SamplesAddNoEntry ==
  (DragSample \/ lastOp \in {"editorResizeMove", "editorRotateMove"})
    => /\ Len(history.past) = Len(pre.past)
       /\ history.future = pre.future

\* C7: a select-tool pointer-down changes the selection without consuming a
\* history slot: past and future are unchanged by it.
C7_SelectKeepsStacks ==
  (lastOp = "handleMouseDown" /\ pre.present.currentTool = "select")
    => /\ history.past = pre.past
       /\ history.future = pre.future

\* C8: from a zoom in [0.1, 5], every zoomViewport call, anchored or not and
\* whatever its delta, leaves viewport.zoom in [0.1, 5].
ZoomOps ==
  {"zoomViewport", "handleZoomIn", "handleZoomOut", "handleZoomReset", "handleWheel"}

C8_ZoomStepClamped ==
  (lastOp \in ZoomOps /\ InRange(zoomOf(pre.present)))
    => InRange(zoomOf(history.present))

C8_Witness ==
  /\ lastOp = "zoomViewport"
  /\ InRange(zoomOf(pre.present))
  /\ zoomOf(pre.present) # MAX_ZOOM
  /\ zoomOf(history.present) = MAX_ZOOM

\* C9: in every reachable state viewport.zoom of the present snapshot lies
\* in [0.1, 5].
C9_ZoomAlwaysInRange == InRange(zoomOf(canvasState))

\* C10: for every anchor A and every delta that the clamp leaves alone, the
\* document point under A before zoomViewport(delta, A.x, A.y) is mapped
\* back to A by canvasToScreen after it.
Anchors == {Point(R(20), R(20)), Point(R(-7), R(45))}
AnchorDeltas == ZoomDeltas \cup {Q(1, 10), Q(-1, 10), Q(-1, 4)}

hitsClamp(z, delta) == clampZoom(RAdd(z, delta)) # RAdd(z, delta)

anchorKept(c, h, delta, A) ==
  LET p == screenToCanvas(c.viewport, A.x, A.y)
      after == zoomViewport(c, h, delta, Some(A)).present.viewport
  IN  canvasToScreen(after, p.x, p.y) = A

C10_AnchorStaysPut ==
  \A A \in Anchors, delta \in AnchorDeltas :
    ~hitsClamp(zoomOf(canvasState), delta)
      => anchorKept(canvasState, history, delta, A)

\* an anchored wheel zoom has changed zoom and offset, away from the clamp,
\* and the point that was under the pointer is still under it
C10_Witness ==
  /\ lastOp = "handleWheel"
  /\ zoomOf(history.present) # zoomOf(pre.present)
  /\ history.present.viewport.offsetX # pre.present.viewport.offsetX
  /\ zoomOf(history.present) \notin {MIN_ZOOM, MAX_ZOOM}
  /\ LET p == screenToCanvas(pre.present.viewport, R(20), R(20))
     IN  canvasToScreen(history.present.viewport, p.x, p.y) = Point(R(20), R(20))

\* C11: a rectangle draw gesture (pointer-down at (x0,y0), moves ending at
\* (x1,y1), pointer-up) changes no history before the pointer-up; the
\* pointer-up appends one rectangle with x = x0, y = y0, width = x1 - x0,
\* height = y1 - y0 after the shapes that were there, which stay as they
\* were, and adds exactly one history entry, so canUndo is true.
RectangleGesture ==
  /\ IsSome(track)
  /\ The(track).kind = "draw"
  /\ The(track).before.currentTool = "rectangle"

C11_DrawAppendsOneRectangle ==
  RectangleGesture =>
    IF ~The(track).released
    THEN history = pre
    ELSE LET t == The(track)
             shapes == history.present.shapes
             n == Len(t.before.shapes)
         IN  /\ Len(shapes) = n + 1
             /\ SubSeq(shapes, 1, n) = t.before.shapes
             /\ shapes[n + 1].type = "rectangle"
             /\ shapes[n + 1].x = t.down.x
             /\ shapes[n + 1].y = t.down.y
             /\ shapes[n + 1].width = RSub(t.last.x, t.down.x)
             /\ shapes[n + 1].height = RSub(t.last.y, t.down.y)
             /\ history.past = Append(pre.past, pre.present)
             /\ pre.present = t.before
             /\ canUndo(history)

C11_Witness ==
  /\ RectangleGesture
  /\ The(track).released
  /\ lastOp = "handleMouseUp"
  /\ The(track).samples = 2
  /\ The(track).before.viewport.zoom = R(2)
  /\ Len(history.present.shapes) = 3
  /\ history.present.shapes[3].width = RSub(The(track).last.x, The(track).down.x)
  /\ history.present.shapes[3].width # R(0)
  /\ Len(history.past) = Len(pre.past) + 1

\* C12: while a shape chosenFile with the select tool is dragged, and after the
\* release, the shape is the shape as it was at the pointer-down translated
\* by (last sample point - down point) in document space, and every other
\* shape has the geometry it had at the pointer-down.
DragGesture == IsSome(track) /\ The(track).kind = "drag"

\* what a translation by (dx, dy) means for a shape: its origin, both
\* endpoints of a line or arrow and every point of a pen path are shifted,
\* and nothing else changes
Translated(shape, dx, dy) ==
  [k \in DOMAIN shape |->
     CASE k \in {"x", "endX"} -> RAdd(shape[k], dx)
       [] k \in {"y", "endY"} -> RAdd(shape[k], dy)
       [] k = "points" -> [i \in 1..Len(shape.points) |->
                            Point(RAdd(shape.points[i].x, dx),
                                  RAdd(shape.points[i].y, dy))]
       [] OTHER -> shape[k]]

draggedId == The(getShapeAtPoint(The(track).down, The(track).before.shapes)).id

C12_DragAddsUpDeltas ==
  DragGesture =>
    LET t == The(track)
        deltaX == RSub(t.last.x, t.down.x)
        deltaY == RSub(t.last.y, t.down.y)
        picked == selectShape(t.before, draggedId).shapes
    IN  history.present.shapes =
          [i \in 1..Len(picked) |->
             IF picked[i].id = draggedId
             THEN Translated(picked[i], deltaX, deltaY)
             ELSE picked[i]]

\* line b dragged through two samples and released somewhere else
C12_Witness ==
  /\ DragGesture
  /\ The(track).released
  /\ lastOp = "handleMouseUp"
  /\ The(track).samples = 2
  /\ The(track).last # The(track).down
  /\ draggedId = "b"
  /\ history.present.shapes[2].endX
       = RAdd(The(track).before.shapes[2].endX,
              RSub(The(track).last.x, The(track).down.x))
  /\ history.present.shapes[1] = Merge(The(track).before.shapes[1], [selected |-> FALSE])

\* C13: the copy made by duplicateSelectedShape has the bounds of the
\* original shifted by (20, 20), with the same width and height, whatever
\* the type of the shape.
Duplicated ==
  /\ lastOp = "duplicateSelectedShape"
  /\ Called("pushToHistory")

original == The(findSelectedShape(pre.present))
copy == Last(history.present.shapes)

C13_CopyShiftedBy20 ==
  Duplicated =>
    LET b == getShapeBounds(original)
    IN  getShapeBounds(copy) = Box(RAdd(b.x, R(20)), RAdd(b.y, R(20)), b.width, b.height)

\* C14: after duplicateSelectedShape the copy's id differs from the id of
\* every other shape, selectedShapeId is the copy's id, the copy's selected
\* flag is true and the original's is not.
C14_CopySelected ==
  Duplicated =>
    LET shapes == history.present.shapes
    IN  /\ \A i \in 1..(Len(shapes) - 1) : shapes[i].id # copy.id
        /\ history.present.selectedShapeId = copy.id
        /\ Get(copy, "selected", FALSE) = TRUE
        /\ \A i \in 1..(Len(shapes) - 1) :
             shapes[i].id = original.id => Get(shapes[i], "selected", FALSE) = FALSE

\* C15: completing a draw gesture, confirming a text, deleting or duplicating
\* the selection, clearCanvas, bringForward, sendBackward and a JSON import
\* each add exactly one entry to past, the snapshot that was present before
\* the operation, and an undo right after the operation makes that snapshot
\* the present again.
CommitOps ==
  {"handleMouseUp", "handleTextSubmit", "handleKeyDelete", "deleteSelectedShape",
   "duplicateSelectedShape", "clearCanvas", "bringForward", "sendBackward",
   "handleFileChange"}

C15_CommitThenUndo ==
  /\ (lastOp \in CommitOps /\ Called("pushToHistory"))
       => history.past = Append(IF Len(pre.past) < MAX_HISTORY_SIZE
                                THEN pre.past ELSE Tail(pre.past),
                                pre.present)
  /\ (lastOp = "undo" /\ prevOp \in CommitOps /\ IsSome(pre2))
       => /\ history.present = The(pre2).present
          /\ history.past = The(pre2).past

\* a rectangle was drawn and the undo that followed took it away again
C15_Witness ==
  /\ lastOp = "undo"
  /\ prevOp = "handleMouseUp"
  /\ IsSome(pre2)
  /\ pre.past = Append(The(pre2).past, The(pre2).present)
  /\ Len(pre.present.shapes) = Len(The(pre2).present.shapes) + 1
  /\ history.present = The(pre2).present

\* C16: the present installed by the import of a parsed document without a
\* viewport key has viewport {offsetX: 0, offsetY: 0, zoom: 1}, and every
\* field of the document is in it unchanged.
Imported ==
  /\ lastOp = "handleFileChange"
  /\ Called("pushToHistory")

ImportedFrom(doc) ==
  /\ DOMAIN history.present = DOMAIN doc \cup {"viewport"}
  /\ \A k \in DOMAIN doc : history.present[k] = doc[k]

C16_ImportBackfillsViewport ==
  (Imported /\ "viewport" \notin DOMAIN The(The(chosenFile).content))
    => /\ ImportedFrom(The(The(chosenFile).content))
       /\ history.present.viewport = Viewport(R(0), R(0), R(1))

\* imported over a document that was shown at zoom 2
C16_Witness ==
  /\ Imported
  /\ The(The(chosenFile).content) = importedDoc
  /\ ImportedFrom(importedDoc)
  /\ "viewport" \notin DOMAIN importedDoc
  /\ pre.present.viewport = Viewport(R(40), R(-20), R(2))
  /\ pre.present.shapes # importedDoc.shapes
  /\ history.present.viewport = Viewport(R(0), R(0), R(1))

\* C17: when the import of a JSON file fails, because its text does not
\* parse or because the file cannot be read, the failure is reported and
\* past, present and future are what they were before.
ImportFailed ==
  /\ lastOp = "handleFileChange"
  /\ IsSome(chosenFile)
  /\ The(chosenFile).type = "application/json"
  /\ (~The(chosenFile).readable \/ ~IsSome(The(chosenFile).content))

C18_ResizeRoundTrip ==
  (IsSome(geom) /\ The(geom).fn = "resizeShape")
    => The(geom).bounds = The(geom).newBounds

\* C19: isPointInShape(p, shape) is isPointInShape(p + d, moveShape(shape, d))
\* for shapes of every type, rotated or not.
C19_HitTestTranslates ==
  (IsSome(geom) /\ The(geom).fn = "isPointInShape")
    => The(geom).hit = The(geom).hitMoved

\* a rotated line is hit at p, and at p + d once it is moved by d
C19_Witness ==
  /\ IsSome(geom)
  /\ The(geom).fn = "isPointInShape"
  /\ The(geom).shape.type = "line"
  /\ Get(The(geom).shape, "rotation", R(0)) # R(0)
  /\ The(geom).delta = Point(R(-7), Q(5, 2))
  /\ The(geom).hit
  /\ The(geom).hitMoved

\* C20: in every state the editing operations reach, at most one shape has
\* selected = true, and a shape that has it is the shape selectedShapeId
\* names.
selectedFlags(c) ==
  {i \in 1..Len(c.shapes) : Get(c.shapes[i], "selected", FALSE) = TRUE}

C20_SelectionInSync ==
  /\ Cardinality(selectedFlags(canvasState)) <= 1
  /\ \A i \in selectedFlags(canvasState) :
       canvasState.shapes[i].id = canvasState.selectedShapeId

\* a shape was picked, duplicated, and picked again
C20_Witness ==
  /\ lastOp = "handleMouseDown"
  /\ prevOp = "duplicateSelectedShape"
  /\ Len(canvasState.shapes) = 3
  /\ selectedFlags(canvasState) = {1}
  /\ canvasState.selectedShapeId = canvasState.shapes[1].id
  /\ pre.present.selectedShapeId = canvasState.shapes[3].id

PinchSampled ==
  /\ lastOp = "handleTouchMove"
  /\ touches = 2
  /\ IsSome(track)
  /\ The(track).kind = "pinch"
  /\ IsSome(The(track).sample)

C22_ZoomAndPanBothApplied ==
  PinchSampled /\ The(The(track).sample).zooms /\ The(The(track).sample).pans =>
    LET s == The(The(track).sample)
        v == pre.present.viewport
        anchor == Point(RSub(s.center.x, canvasRect.left), RSub(s.center.y, canvasRect.top))
        zoom == RMax(Q(1, 10), RMin(R(5), RAdd(v.zoom, s.zoomDelta)))
        anchoredX == RSub(anchor.x, RMul(RSub(anchor.x, v.offsetX), RDiv(zoom, v.zoom)))
        anchoredY == RSub(anchor.y, RMul(RSub(anchor.y, v.offsetY), RDiv(zoom, v.zoom)))
    IN  canvasState.viewport =
          Viewport(RAdd(anchoredX, s.deltaX), RAdd(anchoredY, s.deltaY), zoom)

(***************************************************************************)
(* C23: getShapeBounds returns a box with width >= 0 and height >= 0 for   *)
(* every shape the editor can produce, also for a rectangle or a circle    *)
(* drawn by dragging from the down point toward the upper left.            *)
(***************************************************************************)
C23_BoundsNonNegative ==
  \A i \in 1..Len(canvasState.shapes) :
    LET bounds == getShapeBounds(canvasState.shapes[i])
    IN  RLe(R(0), bounds.width) /\ RLe(R(0), bounds.height)

Picked == IsSome(geom) /\ The(geom).fn = "getShapeAtPoint"

hitIndices(point, shapes) ==
  {i \in 1..Len(shapes) : isPointInShape(point, shapes[i])}

C25_TopmostByListOrder ==
  Picked =>
    LET g == The(geom)
        hits == hitIndices(g.point, g.shapes)
    IN  /\ (g.result = None) <=> (hits = {})
        /\ hits # {} =>
             g.result = Some(g.shapes[CHOOSE i \in hits : \A j \in hits : j <= i])

\* two shapes are hit, the earlier one carries the greater zIndex, and the
\* later one is returned
C25_Witness ==
  /\ Picked
  /\ LET g == The(geom)
     IN  /\ hitIndices(g.point, g.shapes) = {1, 2}
         /\ Get(g.shapes[1], "zIndex", 0) > Get(g.shapes[2], "zIndex", 0)
         /\ g.result = Some(g.shapes[2])

(***************************************************************************)
(* C26: at most one gesture is active at a time: in every state reachable  *)
(* by mouse and touch events at most one of isDrawing, isDragging and      *)
(* isPanning is true.                                                      *)
(***************************************************************************)
C26_OneGestureActive ==
  /\ ~(isDrawing /\ isDragging)
  /\ ~(isDrawing /\ isPanning)
  /\ ~(isDragging /\ isPanning)

(***************************************************************************)
(* C27: a two-finger pinch gesture (first finger down, second finger down, *)
(* two-pointer moves, both fingers lifted) changes only the viewport: the  *)
(* shape list, selectedShapeId and the length of past are the same after   *)
(* the gesture as before it, whichever tool is active.  It is checked at   *)
(* every point of the gesture.                                             *)
(***************************************************************************)
PinchGesture == IsSome(track) /\ The(track).kind = "pinch"

C28_SampleRecorded ==
  PinchSampled =>
    /\ lastTouchDistance = Some(The(The(track).sample).distance)
    /\ panStart = Some(The(The(track).sample).center)

(***************************************************************************)
(* C29: a text entry that ends with the Escape key, or that is confirmed   *)
(* with empty or whitespace-only text, leaves the shape list, the          *)
(* selection and the history exactly as they were before the text-tool     *)
(* pointer-down, and the input is gone, so that no later focus-loss event  *)
(* reaches handleTextSubmit; while the entry is open no shape exists for   *)
(* its anchor.                                                             *)
(***************************************************************************)
TextEntry == IsSome(track) /\ The(track).kind = "text"

blank(text) == \A i \in 1..Len(text) : text[i] = " "

C29_DiscardedEntryChangesNothing ==
  TextEntry =>
    LET t == The(track)
    IN  /\ ~t.released => history = t.history /\ textInput.visible
        /\ t.released /\ (t.closedBy = "escape" \/ blank(t.text)) =>
             /\ history = t.history
             /\ ~textInput.visible
             /\ ~ENABLED HandleTextSubmit

\* an entry confirmed with two spaces
C29_Witness ==
  /\ TextEntry
  /\ The(track).released
  /\ The(track).closedBy = "submit"
  /\ The(track).text = <<" ", " ">>
  /\ history = The(track).history
  /\ Len(canvasState.shapes) = 2

(***************************************************************************)
(* C30: a text shape created by confirming non-empty text gets a zIndex    *)
(* strictly greater than the zIndex (default 0) of every shape already in  *)
(* the document, and zIndex 0 when the document is empty.                  *)
(***************************************************************************)
TextCreated == lastOp = "handleTextSubmit" /\ Called("pushToHistory")

C30_TextOnTop ==
  TextCreated =>
    LET old == pre.present.shapes
        new == Last(canvasState.shapes)
    IN  /\ Len(canvasState.shapes) = Len(old) + 1
        /\ new.type = "text"
        /\ \A i \in 1..Len(old) : new.zIndex > Get(old[i], "zIndex", 0)
        /\ Len(old) = 0 => new.zIndex = 0

\* the first shape of the document had been brought forward to zIndex 1
C30_Witness ==
  /\ TextCreated
  /\ Len(pre.present.shapes) = 2
  /\ Get(pre.present.shapes[1], "zIndex", 0) = 1
  /\ Last(canvasState.shapes).zIndex = 2

(***************************************************************************)
(* C31: bringForward raises the selected shape's zIndex (default 0) by     *)
(* exactly 1 and sendBackward lowers it by 1 but never below 0; neither    *)
(* changes any other shape, any other field or the list order, and with no *)
(* selection neither changes the document or the history.                  *)
(***************************************************************************)
LayerOp == lastOp \in {"bringForward", "sendBackward"}

layered(z) ==
  IF lastOp = "bringForward" THEN z + 1
  ELSE IF z >= 1 THEN z - 1 ELSE 0

C31_LayerOrderStep ==
  LayerOp =>
    LET c == pre.present
        n == canvasState
    IN  IF c.selectedShapeId = Null
        THEN history = pre
        ELSE /\ [n EXCEPT !.shapes = c.shapes] = c
             /\ Len(n.shapes) = Len(c.shapes)
             /\ \A i \in 1..Len(c.shapes) :
                  n.shapes[i] =
                    IF c.shapes[i].id = c.selectedShapeId
                    THEN [k \in DOMAIN c.shapes[i] \cup {"zIndex"} |->
                            IF k = "zIndex"
                            THEN layered(IF "zIndex" \in DOMAIN c.shapes[i]
                                         THEN c.shapes[i].zIndex ELSE 0)
                            ELSE c.shapes[i][k]]
                    ELSE c.shapes[i]

\* the selected shape is sent backward at zIndex 0 and stays there, the
\* other shape being untouched
C31_Witness ==
  /\ lastOp = "sendBackward"
  /\ Called("pushToHistory")
  /\ \E i \in 1..Len(canvasState.shapes) :
       /\ canvasState.shapes[i].id = canvasState.selectedShapeId
       /\ "zIndex" \notin DOMAIN pre.present.shapes[i]
       /\ canvasState.shapes[i].zIndex = 0
  /\ Len(canvasState.shapes) = 2

(* C32: deleting the selection, through the hook or through the Delete and
   Backspace keys, removes the shape whose id is selectedShapeId, keeps the
   other shapes unchanged and in order, sets selectedShapeId to null and
   leaves every other field alone; with no selection it changes neither the
   document nor the history. *)
DeleteOp == lastOp \in {"deleteSelectedShape", "handleKeyDelete"}

C32_DeleteRemovesSelection ==
  DeleteOp =>
    LET c == pre.present
        n == canvasState
        at == {i \in 1..Len(c.shapes) : c.shapes[i].id = c.selectedShapeId}
    IN  IF c.selectedShapeId = Null
        THEN history = pre
        ELSE /\ n.selectedShapeId = Null
             /\ [n EXCEPT !.shapes = c.shapes,
                          !.selectedShapeId = c.selectedShapeId] = c
             /\ Cardinality(at) <= 1
             /\ \A k \in at :
                  /\ Len(n.shapes) = Len(c.shapes) - 1
                  /\ \A i \in 1..Len(n.shapes) :
                       n.shapes[i] = IF i < k THEN c.shapes[i] ELSE c.shapes[i + 1]
             /\ at = {} => n.shapes = c.shapes

C32_Witness ==
  /\ lastOp = "handleKeyDelete"
  /\ Called("pushToHistory")
  /\ Len(pre.present.shapes) = 2
  /\ pre.present.selectedShapeId = pre.present.shapes[1].id
  /\ canvasState.shapes = <<pre.present.shapes[2]>>
  /\ canvasState.selectedShapeId = Null

(* C33: once Panning has been entered by a pointer-down on empty space with
   the select tool, every following pointer-move sample, from the mouse or
   from a single touch, adds its screen-space delta since the previous sample
   to viewport.offsetX and viewport.offsetY. *)
PanSampled ==
  /\ IsSome(track)
  /\ The(track).kind = "pan"
  /\ ~The(track).released
  /\ The(track).samples >= 1

C33_PanFollowsPointer ==
  PanSampled =>
    LET t == The(track)
    IN  /\ canvasState.viewport.offsetX
             = RAdd(t.from.offsetX, RSub(t.last.x, t.prev.x))
        /\ canvasState.viewport.offsetY
             = RAdd(t.from.offsetY, RSub(t.last.y, t.prev.y))

\* the part of C33 about the mouse: it holds for every handleMouseMove sample
C33_MouseSamples == lastOp = "handleMouseMove" => C33_PanFollowsPointer

C33_MouseWitness ==
  /\ PanSampled
  /\ lastOp = "handleMouseMove"
  /\ The(track).samples = 2
  /\ The(track).last # The(track).prev
  /\ canvasState.viewport # The(track).from

(* C34: every candidate box a resize drag passes to onResize is at least 10
   wide and 10 high; when the width floor is hit on a west handle (nw, w, sw)
   the box's right edge is the start bounds' right edge, and when the height
   floor is hit on a north handle (nw, n, ne) its bottom edge is the start
   bounds' bottom edge. *)
ResizeSampled ==
  /\ IsSome(editor)
  /\ The(editor).kind = "resize"
  /\ IsSome(The(editor).sample)

C34_CandidateAtLeastTen ==
  ResizeSampled =>
    LET g == The(editor)
        s == g.startBounds
        m == The(g.sample)
        b == m.newBounds
    IN  /\ RLe(R(10), b.width)
        /\ RLe(R(10), b.height)
        /\ (g.handleId \in {"nw", "w", "sw"} /\ RLt(RSub(s.width, m.deltaX), R(10)))
             => RAdd(b.x, b.width) = RAdd(s.x, s.width)
        /\ (g.handleId \in {"nw", "n", "ne"} /\ RLt(RSub(s.height, m.deltaY), R(10)))
             => RAdd(b.y, b.height) = RAdd(s.y, s.height)

C34_Witness ==
  /\ ResizeSampled
  /\ lastOp = "editorResizeMove"
  /\ The(editor).handleId = "nw"
  /\ The(editor).startBounds = Box(R(10), R(10), R(100), R(50))
  /\ The(The(editor).sample).deltaX = R(500)
  /\ The(The(editor).sample).newBounds = Box(R(100), R(50), R(10), R(10))

(* C35: the n and s handles leave the candidate box's x and width equal to
   the start bounds', and the e and w handles leave its y and height equal
   to the start bounds'. *)
C35_SideHandleKeepsOtherAxis ==
  ResizeSampled =>
    LET g == The(editor)
        s == g.startBounds
        b == The(g.sample).newBounds
    IN  /\ g.handleId \in {"n", "s"} => b.x = s.x /\ b.width = s.width
        /\ g.handleId \in {"e", "w"} => b.y = s.y /\ b.height = s.height

(* C36: every rectangle or circle committed by a draw gesture, in whichever
   direction it was dragged, can be picked: the hit test a select-tool
   pointer-down runs at a point inside the box spanned by the down point and
   the last point returns that shape when no later shape covers the point.
   The committed shape is the last of the list, and the points tried are the
   two corners of the drag and the middle of the box. *)
DrawCommitted ==
  /\ IsSome(track)
  /\ The(track).kind = "draw"
  /\ The(track).released
  /\ The(track).before.currentTool \in {"rectangle", "circle"}
  /\ The(track).samples >= 1
  /\ lastOp = "handleMouseUp"
  /\ Called("pushToHistory")

C36_DrawnShapeCanBePicked ==
  DrawCommitted =>
    LET t == The(track)
        middle == Point(RDiv(RAdd(t.down.x, t.last.x), R(2)),
                        RDiv(RAdd(t.down.y, t.last.y), R(2)))
        committed == canvasState.shapes[Len(canvasState.shapes)]
    IN  \A point \in {t.down, t.last, middle} :
          getShapeAtPoint(point, canvasState.shapes) = Some(committed)

\* the same drag in the other direction: the committed shape is picked
C36_ForwardDrag ==
  /\ DrawCommitted
  /\ RLt(The(track).down.x, The(track).last.x)
  /\ RLt(The(track).down.y, The(track).last.y)
  /\ C36_DrawnShapeCanBePicked

(* C37: when a persisted snapshot is loaded at startup, every top-level
   field, every viewport field and every shape field (rotation and zIndex,
   both documented with default 0) missing from it has its default in the
   present, every field it does contain keeps the stored value, and the load
   adds no history entry, so canUndo stays false. *)
Loaded == lastOp = "loadEffect" /\ IsSome(storage)

\* the part about the top-level fields, the viewport fields and the history
C37_TopLevelAndViewport ==
  Loaded =>
    LET s == The(storage)
        n == canvasState
        v == IF "viewport" \in DOMAIN s THEN s.viewport ELSE <<>>
    IN  /\ DOMAIN n = DOMAIN initialCanvasState \cup DOMAIN s
        /\ \A k \in DOMAIN n \ {"viewport", "shapes"} :
             n[k] = IF k \in DOMAIN s THEN s[k] ELSE initialCanvasState[k]
        /\ \A f \in {"offsetX", "offsetY", "zoom"} :
             n.viewport[f] = IF f \in DOMAIN v THEN v[f]
                             ELSE initialCanvasState.viewport[f]
        /\ Len(history.past) = 0
        /\ Len(history.future) = 0

C37_LoadBackfillsDefaults ==
  /\ C37_TopLevelAndViewport
  /\ Loaded =>
       LET s == The(storage)
           n == canvasState
       IN  /\ Len(n.shapes) = Len(s.shapes)
           /\ \A i \in 1..Len(s.shapes) :
                /\ \A f \in DOMAIN s.shapes[i] : n.shapes[i][f] = s.shapes[i][f]
                /\ "zIndex" \in DOMAIN n.shapes[i]
                /\ "rotation" \in DOMAIN n.shapes[i]
                /\ "zIndex" \notin DOMAIN s.shapes[i] => n.shapes[i].zIndex = 0
                /\ "rotation" \notin DOMAIN s.shapes[i] => n.shapes[i].rotation = R(0)

\* a legacy snapshot was loaded: fontSize and the viewport were backfilled
C37_LegacyLoaded ==
  /\ Loaded
  /\ "viewport" \notin DOMAIN The(storage)
  /\ "fontSize" \notin DOMAIN The(storage)
  /\ canvasState.viewport = Viewport(R(0), R(0), R(1))
  /\ canvasState.fontSize = 16
  /\ canvasState.strokeWidth = 3

(* C38: in every reachable state the lengths of past and future add up to at
   most MAX_HISTORY_SIZE, so a redo, which appends to past without a size
   check, never makes past longer than MAX_HISTORY_SIZE. *)
C38_PastPlusFutureBounded ==
  /\ Len(history.past) + Len(history.future) <= 50
  /\ lastOp = "redo" => Len(history.past) <= 50

\* a redo at the capacity: past had 49 entries and future 1
C38_Witness ==
  /\ lastOp = "redo"
  /\ Called("redo")
  /\ Len(pre.past) = 49
  /\ Len(pre.future) = 1
  /\ Len(history.past) = 50
  /\ history.future = <<>>

(* C39: at startup the persisted snapshot is never overwritten by the
   default empty state.  While the snapshot read by the load effect waits for
   its render, storage still holds what was read; and once a snapshot has
   been installed, no save writes the default snapshot. *)
C39_PersistedNotOverwritten ==
  /\ IsSome(pending) =>
       /\ IsSome(storage)
       /\ The(pending) = mergedState(The(storage))
  /\ (lastOp = "autoSave" /\ initialState # initialCanvasState)
       => storage # Some(initialCanvasState)

\* the first save after a start with a persisted snapshot: the timeout set on
\* the default snapshot was cleared, and the installed snapshot is written
C39_Witness ==
  /\ lastOp = "autoSave"
  /\ prevOp = "loadEffect"
  /\ initialState = mergedState(zoomedSnapshot)
  /\ storage = Some(canvasState)
  /\ canvasState.viewport.zoom = R(2)
  /\ Len(canvasState.shapes) = 2

\* the state between the mount effects and the render: the timeout holds the
\* default snapshot
C39_Window ==
  /\ lastOp = "mountEffects"
  /\ IsSome(pending)
  /\ timer = Some(initialCanvasState)
  /\ canvasState = initialCanvasState

====
